---- MODULE Spec2Model ----
(***************************************************************************)
(* Terrain pipeline of tools/process_terrain.py (TerrainProcessor):        *)
(* tile fetching, mosaic construction, void filling, normalization, LOD    *)
(* pyramid and chunking, overview texture, metadata; and the consistency   *)
(* check of tools/validate_output.py (TerrainValidator).                   *)
(*                                                                         *)
(* Geometry is scaled: a native tile has 3*Scale+1 samples per side (the   *)
(* program: 3*1200+1 = 3601), so the decimated grid has Scale pixels per   *)
(* degree and the full grid 3*Scale.  Bounding-box coordinates are kept in *)
(* half degrees (lat_min2 = 2*lat_min, ...), which floats represent        *)
(* exactly, so int(), floor() and ceil() are computed on exact values.     *)
(***************************************************************************)
EXTENDS Integers, Sequences, FiniteSets, TLC

\* ------------------------------------------------------------------ bounds
\* decimated pixels per degree (the program: 1200)
Scale == 2
\* largest bounding-box extent, in whole degrees
MaxSpan == 2

\* ------------------------------------------------------- program constants
SRTM_TILE_SIZE == 3 * Scale + 1
SRTM_NODATA == -32768
SEA_LEVEL_UINT16 == 1000
\* mutant of max_iterations: range(max_iterations + 1)
OneMoreIteration == 100 + 1
max_iterations == 100

\* Python's None where a tile is expected (a tile is a record, see GetTile)
None == [kind |-> "absent", lat |-> 0, lon |-> 0]
IsNone(t) == t.kind = "absent"
\* no cell
NoCell == <<-9, -9>>
\* run() has not raised
NoFailure == [exc |-> "none", at |-> "none", tile |-> NoCell]
\* no call has been made whose outcome is kept for comparison
NoReference == [done |-> FALSE, raised |-> FALSE, result |-> [p \in {} |-> 0],
                fetched |-> <<>>, cache |-> [cell \in {} |-> "missing"]]

\* ------------------------------------------------------------- arithmetic
\* Python int(x) of the rational n/d, d > 0: truncation toward zero
Trunc(n, d) == IF n >= 0 THEN n \div d ELSE -((-n) \div d)
\* int(np.floor(n/d)) and int(np.ceil(n/d)), d > 0
Floor(n, d) == n \div d
Ceil(n, d) == -((-n) \div d)
Max(a, b) == IF a >= b THEN a ELSE b
Min(a, b) == IF a <= b THEN a ELSE b

\* a raster of h rows and w columns, indexed <<row, column>>
Grid(h, w) == (0 .. h - 1) \X (0 .. w - 1)
Zeros(h, w) == [p \in Grid(h, w) |-> 0]
Unallocated == [p \in {} |-> 0]
\* data.shape of a raster
Height(d) == Cardinality({p[1] : p \in DOMAIN d})
Width(d) == Cardinality({p[2] : p \in DOMAIN d})

VARIABLES
    bbox,             \* region_config['bounding_box'], in half degrees
    resolution_key,   \* region_config['resolution']
    max_elevation_m,  \* region_config['max_elevation_m']
    source,           \* the Tile Source: cell -> kind of tile it yields
    pc,               \* position of run()
    current,          \* tiles processed so far by the mosaic loop
    tiles,            \* _download_tiles: list of (lat, lon, tile_data)
    loading,          \* array being returned by _get_tile, not yet bound
    tile_data,        \* _download_and_merge_srtm3: the bound native tile
    merged,           \* the mosaic / elevation buffer
    void_mask,        \* _fill_voids: data == SRTM_NODATA
    filled,           \* _simple_void_fill: filled
    remaining_voids,  \* _simple_void_fill: remaining_voids
    iteration,        \* _simple_void_fill: loop counter
    printed,          \* what the void filler printed
    voids_filled,     \* stats['voids_filled']
    fill_calls,       \* calls of _fill_voids made so far
    normalized,       \* output of _normalize
    cache,            \* cache_dir: cell -> kind of .hgt file it holds
    tiles_downloaded, \* stats['tiles_downloaded']
    tiles_cached,     \* stats['tiles_cached']
    tile_log,         \* what _download_hgt printed, per fetched cell
    failure,          \* the exception that ended run(), as main() reports it
    lod,              \* _generate_lods_and_chunk: loop variable
    current_lod,      \* _generate_lods_and_chunk: current_lod
    levels,           \* the buffers handed to _chunk_lod so far, in order
    chunks_info,      \* _generate_lods_and_chunk: chunks_info
    overview_info,    \* run(): overview_info
    master_file,      \* output_dir/master_heightmap.png
    chunk_files,      \* output_dir/chunks/lod*/chunk_*_*.png: path -> image
    overview_file,    \* output_dir/overview_texture.png
    metadata_file,    \* output_dir/terrain_metadata.json
    palette,          \* output_dir/elevation_palette.png: kind of file
    runs,             \* runs started on this output directory
    reference         \* outcome of the first of two calls that are compared

vars == <<bbox, resolution_key, max_elevation_m, source, pc, current, tiles,
          loading, tile_data, merged, void_mask, filled, remaining_voids,
          iteration, printed, voids_filled, fill_calls, normalized,
          cache, tiles_downloaded, tiles_cached, tile_log, failure,
          lod, current_lod, levels, chunks_info, overview_info,
          master_file, chunk_files, overview_file, metadata_file, palette, runs,
          reference>>

\* ------------------------------------------------------------ Tile Source
\* A tile the Tile Source yields is named by its kind and cell; its samples
\* are a function of the name (tiles are never written to).
\*   "land": every sample a distinct positive elevation
\*   "void": every sample the nodata sentinel
\*   "absent": no tile (_get_tile returns None)
TileKinds == {"land", "void", "absent"}

\* What the download of a cell's tile does (source[cell]):
\*   "land", "void": the gzipped tile arrives and decompresses
\*   "absent":      urlretrieve raises HTTPError 404
\*   "http_error":  urlretrieve raises an HTTPError other than 404
\*   "net_error":   urlretrieve raises URLError
\*   "bad_gzip":    the body arrives, gz_file.read() raises
\*   "malformed":   the body decompresses to other than 3601 x 3601 samples
FailKinds == {"http_error", "net_error", "bad_gzip", "malformed"}
DownloadKinds == TileKinds \cup FailKinds

\* What the cache holds for a cell (cache[cell]):
\*   "missing": no file;  "land", "void": a complete tile;
\*   "empty": a file of 0 bytes;  "malformed": a file of the wrong size
FileKinds == {"missing", "land", "void", "empty", "malformed"}

\* cells that any bounding box of the model can touch
CellLats == -1 .. MaxSpan - 2
CellLons == -1 .. MaxSpan - 2
Cells == CellLats \X CellLons

\* sample (r, c) of the land tile of cell (lat, lon); injective in (lat, lon, r, c)
LandSample(lat, lon, r, c) ==
    1 + c + SRTM_TILE_SIZE * (r + SRTM_TILE_SIZE * ((lon + 1) + MaxSpan * (lat + 1)))

\* generate_test_data.generate_synthetic_tile: side of the tile it makes
\* (the program: size = 1201, one third of a native tile's 3600 plus 1)
GeneratedTileSize == Scale + 1
\* generate_synthetic_tile(lat, lon): an int16 array, deterministic per
\* cell (np.random.seed(lat * 1000 + lon)), clipped to 200 .. 4800
GenerateSyntheticTile(lat, lon) ==
    [p \in Grid(GeneratedTileSize, GeneratedTileSize) |->
        200 + ((7 * p[1] + 3 * p[2] + 11 * (lat + 2) + 13 * (lon + 2)) % 4601)]
\* save_hgt_tile(data, path): the samples of the file, in order; astype('>i2')
\* keeps every int16 value and tofile writes the rows one after the other
SaveHgtTile(data) ==
    [i \in 1 .. Height(data) * Width(data) |->
        data[<<(i - 1) \div Width(data), (i - 1) % Width(data)>>]]
\* the file generate_test_data.main writes for a cell
TestFile(cell) == SaveHgtTile(GenerateSyntheticTile(cell[1], cell[2]))

\* the array _read_hgt returns for a tile: row r, column c, 0-based; for a
\* file of generate_test_data, np.fromfile(path, '>i2') reshaped row by row
TileArray(t, r, c) ==
    IF t.kind = "land" THEN LandSample(t.lat, t.lon, r, c)
    ELSE IF t.kind = "test" THEN TestFile(<<t.lat, t.lon>>)[r * SRTM_TILE_SIZE + c + 1]
    ELSE SRTM_NODATA

\* np.fromfile(path, dtype='>i2').size for a cached file ("test": a file
\* written by generate_test_data)
SampleCount(file) ==
    CASE file \in {"land", "void"} -> SRTM_TILE_SIZE * SRTM_TILE_SIZE
      [] file = "test" -> Len(TestFile(<<0, 0>>))
      [] file = "malformed" -> SRTM_TILE_SIZE * SRTM_TILE_SIZE - 1
      [] OTHER -> 0

\* _read_hgt(path) raises ValueError: reshape of a file that does not hold
\* SRTM_TILE_SIZE * SRTM_TILE_SIZE samples
ReadHgtRaises(file) == SampleCount(file) # SRTM_TILE_SIZE * SRTM_TILE_SIZE

\* the file _download_hgt leaves at cache_path: open(cache_path, 'wb')
\* creates it before gz_file.read() is evaluated
DownloadedFile(kind) ==
    CASE kind \in {"land", "void"} -> kind
      [] kind = "bad_gzip" -> "empty"
      [] kind = "malformed" -> "malformed"
      [] OTHER -> "missing"

\* what _download_hgt prints after "Downloading...": nothing, or the except
\* clause's message
DownloadMessage(kind) ==
    CASE kind = "http_error" -> "HTTP Error"
      [] kind = "net_error" -> "Error: URLError"
      [] kind = "bad_gzip" -> "Error: BadGzipFile"
      [] kind = "malformed" -> "Error: ValueError"
      [] OTHER -> ""

\* _download_hgt returns None: HTTPError (404 or not) and every other
\* exception, the ValueError of its own _read_hgt call included
DownloadHgt(lat, lon) ==
    IF source[<<lat, lon>>] \in {"land", "void"}
    THEN [kind |-> source[<<lat, lon>>], lat |-> lat, lon |-> lon]
    ELSE None

\* _get_tile raises: the cached file exists and _read_hgt cannot reshape it
GetTileRaises(lat, lon) ==
    cache[<<lat, lon>>] # "missing" /\ ReadHgtRaises(cache[<<lat, lon>>])

\* _get_tile(lat, lon): the tile of the cell, or None
GetTile(lat, lon) ==
    IF cache[<<lat, lon>>] # "missing"
    THEN IF ReadHgtRaises(cache[<<lat, lon>>]) THEN None
         ELSE [kind |-> cache[<<lat, lon>>], lat |-> lat, lon |-> lon]
    ELSE DownloadHgt(lat, lon)

\* the cache directory after _get_tile(lat, lon)
CacheAfterGet(lat, lon) ==
    IF cache[<<lat, lon>>] # "missing" THEN cache
    ELSE [cache EXCEPT ![<<lat, lon>>] = DownloadedFile(source[<<lat, lon>>])]

\* stats after _get_tile(lat, lon)
CachedAfterGet(lat, lon) ==
    IF cache[<<lat, lon>>] # "missing" THEN tiles_cached + 1 ELSE tiles_cached
DownloadedAfterGet(lat, lon) ==
    IF cache[<<lat, lon>>] = "missing" /\ ~IsNone(DownloadHgt(lat, lon))
    THEN tiles_downloaded + 1 ELSE tiles_downloaded

\* the console after _get_tile(lat, lon)
LogAfterGet(lat, lon) ==
    Append(tile_log,
           [cell |-> <<lat, lon>>,
            downloading |-> cache[<<lat, lon>>] = "missing",
            error |-> IF cache[<<lat, lon>>] = "missing"
                      THEN DownloadMessage(source[<<lat, lon>>]) ELSE ""])

\* -------------------------------------------------------- mosaic geometry
downsample_3x == resolution_key = "srtm3"

lat_min_i == Floor(bbox.lat_min2, 2)
lat_max_i == Ceil(bbox.lat_max2, 2)
lon_min_i == Floor(bbox.lon_min2, 2)
lon_max_i == Ceil(bbox.lon_max2, 2)
total_tiles == (lat_max_i - lat_min_i) * (lon_max_i - lon_min_i)

\* mutant of ScanCell: latitudes scanned north to south
ScanCellLatDescending(k) ==
    <<lat_max_i - 1 - (k \div (lon_max_i - lon_min_i)),
      lon_min_i + (k % (lon_max_i - lon_min_i))>>

\* the k-th cell (0-based) of "for lat in range(..): for lon in range(..)"
ScanCell(k) ==
    <<lat_min_i + (k \div (lon_max_i - lon_min_i)),
      lon_min_i + (k % (lon_max_i - lon_min_i))>>

\* px_per_degree and the side of the block a tile contributes
PxPerDegree(ds3) == IF ds3 THEN Scale ELSE SRTM_TILE_SIZE - 1
TileOut(ds3) == IF ds3 THEN Scale + 1 ELSE SRTM_TILE_SIZE

height_px(ds3) == Trunc((bbox.lat_max2 - bbox.lat_min2) * PxPerDegree(ds3), 2)
width_px(ds3) == Trunc((bbox.lon_max2 - bbox.lon_min2) * PxPerDegree(ds3), 2)

\* mutant of YOffset: rows counted from the south edge (no north-south inversion)
YOffsetNoFlip(lat, ds3) == Trunc((2 * lat - bbox.lat_min2) * PxPerDegree(ds3), 2)

\* y_offset = int((lat_max - (lat + 1)) * px_per_degree)
YOffset(lat, ds3) == Trunc((bbox.lat_max2 - 2 * (lat + 1)) * PxPerDegree(ds3), 2)
\* x_offset = int((lon - lon_min) * px_per_degree)
XOffset(lon, ds3) == Trunc((2 * lon - bbox.lon_min2) * PxPerDegree(ds3), 2)

\* mutant of TilePlace: an absent tile contributes nodata instead of zeros
TilePlaceAbsentVoid(t, ds3, r, c) ==
    IF IsNone(t) THEN SRTM_NODATA
    ELSE IF ds3 THEN TileArray(t, 3 * r, 3 * c)
    ELSE TileArray(t, r, c)

\* tile_place[r, c]: zeros for an absent tile, tile_data[::3, ::3] when
\* decimating, tile_data itself otherwise
TilePlace(t, ds3, r, c) ==
    IF IsNone(t) THEN 0
    ELSE IF ds3 THEN TileArray(t, 3 * r, 3 * c)
    ELSE TileArray(t, r, c)

\* mutant of PlaceTile: the source slice is not shifted by the clipped part,
\* merged[y_start:y_end, x_start:x_end] = tile_place[0:y_end - y_start, ...]
PlaceTileSourceUnclipped(m, t, lat, lon, ds3) ==
    LET y_offset == YOffset(lat, ds3)
        x_offset == XOffset(lon, ds3)
        y_start == Max(0, y_offset)
        y_end == Min(height_px(ds3), y_offset + TileOut(ds3))
        x_start == Max(0, x_offset)
        x_end == Min(width_px(ds3), x_offset + TileOut(ds3))
    IN  IF y_end > y_start /\ x_end > x_start
        THEN [p \in DOMAIN m |->
                IF /\ y_start <= p[1] /\ p[1] < y_end
                   /\ x_start <= p[2] /\ p[2] < x_end
                THEN TilePlace(t, ds3, p[1] - y_start, p[2] - x_start)
                ELSE m[p]]
        ELSE m

\* merged[y_start:y_end, x_start:x_end] = tile_place[src_y_start:src_y_end, ...]
PlaceTile(m, t, lat, lon, ds3) ==
    LET y_offset == YOffset(lat, ds3)
        x_offset == XOffset(lon, ds3)
        y_start == Max(0, y_offset)
        y_end == Min(height_px(ds3), y_offset + TileOut(ds3))
        x_start == Max(0, x_offset)
        x_end == Min(width_px(ds3), x_offset + TileOut(ds3))
        src_y_start == y_start - y_offset
        src_y_end == src_y_start + (y_end - y_start)
        src_x_start == x_start - x_offset
        src_x_end == src_x_start + (x_end - x_start)
    IN  IF src_y_end > src_y_start /\ src_x_end > src_x_start
        THEN [p \in DOMAIN m |->
                IF /\ y_start <= p[1] /\ p[1] < y_end
                   /\ x_start <= p[2] /\ p[2] < x_end
                THEN TilePlace(t, ds3, src_y_start + (p[1] - y_start),
                                       src_x_start + (p[2] - x_start))
                ELSE m[p]]
        ELSE m

\* ------------------------------------------------------------ Void Filler
\* mutant of VoidMask: the comparison inverted
VoidMaskInverted(data) == [p \in DOMAIN data |-> data[p] # SRTM_NODATA]

\* void_mask = (data == SRTM_NODATA)
VoidMask(data) == [p \in DOMAIN data |-> data[p] = SRTM_NODATA]
\* np.sum(mask)
CountTrue(mask) == Cardinality({p \in DOMAIN mask : mask[p]})

\* the neighbour test of _simple_void_fill:
\* 0 <= ny < h and 0 <= nx < w and not remaining_voids[ny, nx]
IsSource(rem, q) == q \in DOMAIN rem /\ ~rem[q]

\* the 8 neighbours of p, "for dy in [-1, 0, 1]: for dx in [-1, 0, 1]"
Around(p) ==
    {<<p[1] + dy, p[2] + dx>> : dy \in {-1, 0, 1}, dx \in {-1, 0, 1}} \ {p}

RECURSIVE SumOver(_, _)
SumOver(f, S) ==
    IF S = {} THEN 0
    ELSE LET q == CHOOSE q \in S : TRUE IN f[q] + SumOver(f, S \ {q})

\* the value given to void pixel p: int(np.mean(neighbors)), where neighbors
\* holds filled[ny, nx] (the buffer as it was when the iteration began) of
\* every neighbour not marked void now
FillValue(old, rem, p) ==
    LET nb == {q \in Around(p) : IsSource(rem, q)}
    IN  Trunc(SumOver(old, nb), Cardinality(nb))

\* "for y, x in void_coords" visits the void pixels in raster order (np.argwhere):
\* row y from column x on; st = [new, rem] are new_filled and remaining_voids,
\* old is filled
RECURSIVE FillRow(_, _, _, _, _)
FillRow(y, x, w, old, st) ==
    IF x >= w THEN st
    ELSE IF st.rem[<<y, x>>] /\ \E q \in Around(<<y, x>>) : IsSource(st.rem, q)
         THEN LET next ==
                      [new |-> [st.new EXCEPT ![<<y, x>>] = FillValue(old, st.rem, <<y, x>>)],
                       rem |-> [st.rem EXCEPT ![<<y, x>>] = FALSE]]
              IN  IF next = next  \* evaluate before descending
                  THEN FillRow(y, x + 1, w, old, next)
                  ELSE st
         ELSE FillRow(y, x + 1, w, old, st)

RECURSIVE FillScan(_, _, _, _, _)
FillScan(y, h, w, old, st) ==
    IF y >= h THEN st
    ELSE LET next == FillRow(y, 0, w, old, st)
         IN  IF next = next  \* evaluate before descending
             THEN FillScan(y + 1, h, w, old, next)
             ELSE st

\* one iteration of the loop of _simple_void_fill
FillPass(old, rem) ==
    FillScan(0, Height(old), Width(old), old, [new |-> old, rem |-> rem])

\* float32 values of _smooth_filled_regions are kept as fixed point with
\* FracBits fractional bits; a quotient is rounded to the nearest such value
FracBits == 8
RECURSIVE Pow2(_)
Pow2(n) == IF n = 0 THEN 1 ELSE 2 * Pow2(n - 1)
ToFloat(v) == v * Pow2(FracBits)
\* .astype(np.int16) of a float: truncation toward zero
FloatToInt16(x) == Trunc(x, Pow2(FracBits))
RoundDiv(n, d) == IF n >= 0 THEN (2 * n + d) \div (2 * d)
                  ELSE -((2 * (-n) + d) \div (2 * d))

\* kernel[ky + 1, kx + 1] * 16
KernelWeight(ky, kx) ==
    IF ky = 0 /\ kx = 0 THEN 4 ELSE IF ky = 0 \/ kx = 0 THEN 2 ELSE 1

\* result / weight_sum for pixel p, read from smoothed itself
SmoothValue(sm, p) ==
    LET win == {q \in Around(p) \cup {p} : q \in DOMAIN sm}
        wt == [q \in win |-> KernelWeight(q[1] - p[1], q[2] - p[2])]
        prod == [q \in win |-> sm[q] * wt[q]]
    IN  RoundDiv(SumOver(prod, win), SumOver(wt, win))

\* "for y, x in void_coords" of _smooth_filled_regions, in raster order:
\* row y from column x on
RECURSIVE SmoothRow(_, _, _, _, _)
SmoothRow(y, x, w, mask, sm) ==
    IF x >= w THEN sm
    ELSE IF mask[<<y, x>>]
         THEN LET next == [sm EXCEPT ![<<y, x>>] = SmoothValue(sm, <<y, x>>)]
              IN  IF next = next  \* evaluate before descending
                  THEN SmoothRow(y, x + 1, w, mask, next)
                  ELSE sm
         ELSE SmoothRow(y, x + 1, w, mask, sm)

RECURSIVE SmoothScan(_, _, _, _, _)
SmoothScan(y, h, w, mask, sm) ==
    IF y >= h THEN sm
    ELSE LET next == SmoothRow(y, 0, w, mask, sm)
         IN  IF next = next  \* evaluate before descending
             THEN SmoothScan(y + 1, h, w, mask, next)
             ELSE sm

\* mutant of SmoothFilledRegions: the kernel applied to every pixel
SmoothEverywhere(data, mask) ==
    LET smoothed == [p \in DOMAIN data |-> ToFloat(data[p])]
        out == SmoothScan(0, Height(data), Width(data),
                          [p \in DOMAIN data |-> TRUE], smoothed)
    IN  [p \in DOMAIN data |-> FloatToInt16(out[p])]

\* _smooth_filled_regions(data, void_mask)
SmoothFilledRegions(data, mask) ==
    LET smoothed == [p \in DOMAIN data |-> ToFloat(data[p])]
        out == SmoothScan(0, Height(data), Width(data), mask, smoothed)
    IN  [p \in DOMAIN data |-> FloatToInt16(out[p])]

\* ------------------------------------------------------------- Normalizer
\* mutant of NormalizePixel: elevations below 0 are not clamped to 0
NormalizeNoClamp(e, max_elev) ==
    Min(Max(Trunc(e * (65535 - SEA_LEVEL_UINT16), max_elev) + SEA_LEVEL_UINT16, 0),
        65535)

\* one element of _normalize: np.maximum(data, 0), scale and offset, clip,
\* .astype(np.uint16) (truncation); the product is taken exactly, float32
\* rounding of it is not modelled
NormalizePixel(e, max_elev) ==
    Min(Trunc(Max(e, 0) * (65535 - SEA_LEVEL_UINT16), max_elev) + SEA_LEVEL_UINT16,
        65535)

\* _normalize(data)
Normalize(data) == [p \in DOMAIN data |-> NormalizePixel(data[p], max_elevation_m)]

\* --------------------------------------------------- LOD pyramid, chunks
\* half the side of a chunk (the program: 256)
ChunkHalf == 1
CHUNK_SIZE_PX == 2 * ChunkHalf
LOD_LEVELS == 5

\* mutant of Downsample: an odd last row / column is dropped, not repeated
DownsampleCrop(data) ==
    LET h == Height(data)
        w == Width(data)
    IN  [p \in Grid(h \div 2, w \div 2) |->
            (data[<<2 * p[1], 2 * p[2]>>] + data[<<2 * p[1], 2 * p[2] + 1>>]
             + data[<<2 * p[1] + 1, 2 * p[2]>>]
             + data[<<2 * p[1] + 1, 2 * p[2] + 1>>]) \div 4]

\* mutant of Downsample: the top-left sample of each block, no averaging
DownsampleNearest(data) ==
    LET h == Height(data)
        w == Width(data)
    IN  [p \in Grid((h + 1) \div 2, (w + 1) \div 2) |-> data[<<2 * p[1], 2 * p[2]>>]]

\* _downsample: np.vstack / np.hstack repeat the last row / column of an
\* odd-sized buffer; reshape(h//2, 2, w//2, 2).mean(axis=(1, 3)) averages
\* each 2x2 block in float64 (exact); astype(uint16) truncates
Downsample(data) ==
    LET h == Height(data)
        w == Width(data)
        h_even == IF h % 2 = 1 THEN h + 1 ELSE h
        w_even == IF w % 2 = 1 THEN w + 1 ELSE w
        at(r, c) == data[<<Min(r, h - 1), Min(c, w - 1)>>]
    IN  [p \in Grid(h_even \div 2, w_even \div 2) |->
            (at(2 * p[1], 2 * p[2]) + at(2 * p[1], 2 * p[2] + 1)
             + at(2 * p[1] + 1, 2 * p[2]) + at(2 * p[1] + 1, 2 * p[2] + 1)) \div 4]

\* mutant of NumChunks: a partial chunk at the edge is not counted
NumChunksFloor(n) == n \div CHUNK_SIZE_PX

\* num_chunks_y, num_chunks_x = (n + CHUNK_SIZE_PX - 1) // CHUNK_SIZE_PX
NumChunks(n) == (n + CHUNK_SIZE_PX - 1) \div CHUNK_SIZE_PX

\* mutant of ChunkData: the padding repeats the edge pixel
ChunkDataEdgePad(data, chunk_x, chunk_y) ==
    LET h == Height(data)
        w == Width(data)
    IN  [p \in Grid(CHUNK_SIZE_PX, CHUNK_SIZE_PX) |->
            data[<<Min(chunk_y * CHUNK_SIZE_PX + p[1], h - 1),
                   Min(chunk_x * CHUNK_SIZE_PX + p[2], w - 1)>>]]

\* chunk_data: data[y_start:y_end, x_start:x_end], copied into the top-left
\* corner of np.zeros((CHUNK_SIZE_PX, CHUNK_SIZE_PX)) when it is smaller
ChunkData(data, chunk_x, chunk_y) ==
    LET h == Height(data)
        w == Width(data)
        y_start == chunk_y * CHUNK_SIZE_PX
        y_end == Min(y_start + CHUNK_SIZE_PX, h)
        x_start == chunk_x * CHUNK_SIZE_PX
        x_end == Min(x_start + CHUNK_SIZE_PX, w)
    IN  [p \in Grid(CHUNK_SIZE_PX, CHUNK_SIZE_PX) |->
            IF y_start + p[1] < y_end /\ x_start + p[2] < x_end
            THEN data[<<y_start + p[1], x_start + p[2]>>]
            ELSE 0]

\* f"chunks/lod{lod}/chunk_{chunk_x}_{chunk_y}.png"
ChunkPath(l, chunk_x, chunk_y) == <<"chunks", l, "chunk", chunk_x, chunk_y>>

\* the record _chunk_lod appends for a chunk
ChunkRecord(l, chunk_x, chunk_y) ==
    [lod |-> l, x |-> chunk_x, y |-> chunk_y, path |-> ChunkPath(l, chunk_x, chunk_y)]

\* the list _chunk_lod returns: for chunk_y in range(..): for chunk_x in range(..)
ChunkRecords(data, l) ==
    LET ny == NumChunks(Height(data))
        nx == NumChunks(Width(data))
    IN  [i \in 1 .. ny * nx |-> ChunkRecord(l, (i - 1) % nx, (i - 1) \div nx)]

\* the chunk files after _chunk_lod: _save_png_16bit creates or overwrites
\* one file per record, every other file stays
SaveChunks(files, data, l) ==
    LET recs == ChunkRecords(data, l)
        written == {recs[i].path : i \in DOMAIN recs}
    IN  [path \in DOMAIN files \cup written |->
            IF path \in written
            THEN ChunkData(data, path[4], path[5])
            ELSE files[path]]

\* ------------------------------------------------------ overview texture
\* width of the overview texture (the program: 4096)
OverviewWidth == 4
overview_width == OverviewWidth
SRTM1_RESOLUTION_M == 30
SRTM3_RESOLUTION_M == 90
COLOR_WATER_OVERVIEW == <<38, 64, 115>>
\* (46, 82, 31), "Fallback lowland green"
FallbackGreen == <<46, 82, 31>>

\* round() and np.round() of the rational n/d, n >= 0, d > 0: to nearest,
\* a tie to the even neighbour
RoundHalfEven(n, d) ==
    LET q == n \div d
        r == n % d
    IN  IF 2 * r < d THEN q
        ELSE IF 2 * r > d THEN q + 1
        ELSE IF q % 2 = 0 THEN q ELSE q + 1

\* self.resolution_m
resolution_m == IF downsample_3x THEN SRTM3_RESOLUTION_M ELSE SRTM1_RESOLUTION_M

\* overview_height = int(round(overview_width * aspect))
overview_height(master) ==
    RoundHalfEven(overview_width * Height(master), Width(master))

\* step_y = master_height / float(overview_height) raises ZeroDivisionError
OverviewRaises(master) == overview_height(master) = 0

\* indices_x[j], indices_y[i]: min(round(k * step), size - 1)
IndexX(master, j) ==
    Min(RoundHalfEven(j * Width(master), overview_width), Width(master) - 1)
IndexY(master, i) ==
    Min(RoundHalfEven(i * Height(master), overview_height(master)), Height(master) - 1)

\* Kinds of output_dir/elevation_palette.png:
\*   "missing": no file;  "unreadable": Image.open raises;
\*   "bad_shape": neither 1 row of >= 256 nor 1 column of >= 256 pixels;
\*   "gray": a 256 x 1 image whose entry i is the gray (i, i, i)
PaletteKinds == {"missing", "unreadable", "bad_shape", "gray"}

\* load_elevation_palette(path) is not None
PaletteLoaded(kind) == kind = "gray"

\* elev_m * (65535 - SEA_LEVEL_UINT16) for master value v, where elev_m is
\* clip((v - SEA_LEVEL_UINT16) / (65535 - SEA_LEVEL_UINT16) * max_elevation_m,
\*      0, max_elevation_m); the quotient is taken exactly
ElevMScaled(v) ==
    Min(Max((v - SEA_LEVEL_UINT16) * max_elevation_m, 0),
        max_elevation_m * (65535 - SEA_LEVEL_UINT16))

\* mutant of WaterMask: the sea-level offset is not subtracted
WaterMaskNoOffset(v) == v * max_elevation_m < 5 * (65535 - SEA_LEVEL_UINT16)

\* water_mask: elev_m < 5, where elev_m is
\* clip((v - SEA_LEVEL_UINT16) / (65535 - SEA_LEVEL_UINT16) * max_elevation_m,
\*      0, max_elevation_m); the quotient is taken exactly
WaterMask(v) ==
    Max(v - SEA_LEVEL_UINT16, 0) * max_elevation_m < 5 * (65535 - SEA_LEVEL_UINT16)

\* sample_elevation_color on the gray palette: between entries idx0 and
\* idx0 + 1 the interpolated gray is idx_float = t * 255 itself,
\* t = clip(elev_m / max_elev, 0, 1) = (v - 1000) / 64535
SampleElevationColor(v) ==
    LET g == Min(RoundHalfEven(255 * Max(v - SEA_LEVEL_UINT16, 0),
                               65535 - SEA_LEVEL_UINT16), 255)
    IN  <<g, g, g>>

\* mutant of OverviewColour: without a palette the land pixels stay as
\* np.zeros left them
OverviewColourNoFallback(v, kind) ==
    IF WaterMask(v) THEN COLOR_WATER_OVERVIEW
    ELSE IF PaletteLoaded(kind) THEN SampleElevationColor(v)
    ELSE <<0, 0, 0>>

\* rgb of an overview pixel sampled from master value v
OverviewColour(v, kind) ==
    IF WaterMask(v) THEN COLOR_WATER_OVERVIEW
    ELSE IF PaletteLoaded(kind) THEN SampleElevationColor(v)
    ELSE FallbackGreen

\* the image saved as overview_texture.png
OverviewTexture(master, kind) ==
    LET ys == [i \in 0 .. overview_height(master) - 1 |-> IndexY(master, i)]
        xs == [j \in 0 .. overview_width - 1 |-> IndexX(master, j)]
    IN  [p \in Grid(overview_height(master), overview_width) |->
            OverviewColour(master[<<ys[p[1]], xs[p[2]]>>], kind)]

\* the dict _generate_overview_texture returns
OverviewInfo(master) ==
    [overview_texture |-> "overview_texture.png",
     overview_width_px |-> overview_width,
     overview_height_px |-> overview_height(master),
     overview_world_width_m |-> NumChunks(Width(master)) * CHUNK_SIZE_PX * resolution_m,
     overview_world_height_m |-> NumChunks(Height(master)) * CHUNK_SIZE_PX * resolution_m]

\* the content _generate_metadata dumps to terrain_metadata.json
Metadata(master, info, overview) ==
    [exists |-> TRUE,
     region_name |-> "display_name",
     bounding_box |-> bbox,
     resolution_m |-> resolution_m,
     max_elevation_m |-> max_elevation_m,
     chunk_size_px |-> CHUNK_SIZE_PX,
     lod_levels |-> LOD_LEVELS,
     total_chunks |-> Len(info),
     master_heightmap_width |-> Width(master),
     master_heightmap_height |-> Height(master),
     chunks |-> info,
     overview |-> overview]

\* mutant of DelTileData: the tile stays bound until the next one is bound
KeepTileData(t) == t

\* del tile_data  (free before next tile load)
DelTileData(t) == None

\* native-resolution tiles alive: the list of _download_tiles, the array
\* _get_tile is returning, and the one bound to tile_data
NativeTilesHeld ==
    Cardinality({i \in 1 .. Len(tiles) : ~IsNone(tiles[i][3])})
    + (IF ~IsNone(loading) THEN 1 ELSE 0)
    + (IF ~IsNone(tile_data) THEN 1 ELSE 0)

\* ------------------------------------------------------- inputs of a run
\* whole-degree boxes with south-west corner (-1, -1), and the same boxes
\* with the low edges raised or the high edges lowered by half a degree
BoxCuts == {<<0, 0>>, <<1, 0>>, <<0, 1>>}
Boxes ==
    {[lat_min2 |-> -2 + cut[1], lat_max2 |-> -2 + 2 * sLat - cut[2],
      lon_min2 |-> -2 + cut[1], lon_max2 |-> -2 + 2 * sLon - cut[2]] :
        sLat \in 1 .. MaxSpan, sLon \in 1 .. MaxSpan, cut \in BoxCuts}

BoxCells(b) ==
    (Floor(b.lat_min2, 2) .. Ceil(b.lat_max2, 2) - 1)
        \X (Floor(b.lon_min2, 2) .. Ceil(b.lon_max2, 2) - 1)

\* Tile Sources: land everywhere, but for at most one absent and one void cell
Sources(b) ==
    {[cell \in Cells |->
        IF cell = a THEN "absent" ELSE IF cell = v THEN "void" ELSE "land"] :
        a \in BoxCells(b) \cup {NoCell}, v \in BoxCells(b) \cup {NoCell}}

MaxElevations == {1, 4810, 9000}

\* ------------------------------------------------------------------ run()
mosaic_vars == <<current, tiles, loading, tile_data, merged>>
fill_vars == <<void_mask, filled, remaining_voids, iteration, printed, voids_filled,
               fill_calls>>
\* what no step of run() changes
config_vars == <<bbox, resolution_key, max_elevation_m, source, reference>>
fetch_vars == <<cache, tiles_downloaded, tiles_cached, tile_log>>
lod_vars == <<lod, current_lod, levels, chunks_info>>
dir_vars == <<master_file, chunk_files, overview_file, metadata_file, palette>>
\* what no stage up to _normalize touches
late_vars == <<failure, lod_vars, overview_info, dir_vars, runs>>

\* the box of the single cell (-1, -1)
UnitBox == [lat_min2 |-> -2, lat_max2 |-> 0, lon_min2 |-> -2, lon_max2 |-> 0]

\* no overview generated yet / no terrain_metadata.json in the directory
NoOverview ==
    [overview_texture |-> "", overview_width_px |-> 0, overview_height_px |-> 0,
     overview_world_width_m |-> 0, overview_world_height_m |-> 0]
NoMetadata ==
    [exists |-> FALSE, region_name |-> "", bounding_box |-> UnitBox, resolution_m |-> 0,
     max_elevation_m |-> 0, chunk_size_px |-> 0, lod_levels |-> 0,
     total_chunks |-> 0, master_heightmap_width |-> 0,
     master_heightmap_height |-> 0, chunks |-> <<>>, overview |-> NoOverview]
\* no chunk file in the directory
NoFiles == [path \in {} |-> Unallocated]

\* a cache directory without files, as __init__ creates it
EmptyCache ==
    /\ cache = [cell \in Cells |-> "missing"]
    /\ tiles_downloaded = 0
    /\ tiles_cached = 0
    /\ tile_log = <<>>
\* run() has produced nothing yet
NothingProduced ==
    /\ failure = NoFailure
    /\ lod = 0
    /\ current_lod = Unallocated
    /\ levels = <<>>
    /\ chunks_info = <<>>
    /\ overview_info = NoOverview
    /\ reference = NoReference
\* an output directory without files, as __init__ creates it
EmptyDirectory ==
    /\ master_file = Unallocated
    /\ chunk_files = NoFiles
    /\ overview_file = Unallocated
    /\ metadata_file = NoMetadata

Init ==
    /\ bbox \in Boxes
    /\ resolution_key \in {"srtm1", "srtm3"}
    /\ max_elevation_m = 4810
    /\ source \in Sources(bbox)
    /\ pc = "start"
    /\ current = 0
    /\ tiles = <<>>
    /\ loading = None
    /\ tile_data = None
    /\ merged = Unallocated
    /\ void_mask = Unallocated
    /\ filled = Unallocated
    /\ remaining_voids = Unallocated
    /\ iteration = 0
    /\ printed = <<>>
    /\ voids_filled = 0
    /\ fill_calls = 0
    /\ normalized = Unallocated
    /\ EmptyCache
    /\ NothingProduced
    /\ EmptyDirectory
    /\ palette = "missing"
    /\ runs = 1

\* _download_and_merge_srtm3: merged = np.zeros((height_px, width_px))
Srtm3Begin ==
    /\ pc = "start"
    /\ downsample_3x
    /\ merged' = Zeros(height_px(TRUE), width_px(TRUE))
    /\ current' = 0
    /\ pc' = "srtm3_get"
    /\ UNCHANGED <<config_vars, late_vars, fetch_vars, tiles, loading, tile_data, fill_vars, normalized>>

\* _download_and_merge_srtm3: the call self._get_tile(lat, lon)
Srtm3GetTile ==
    /\ pc = "srtm3_get"
    /\ ~GetTileRaises(ScanCell(current)[1], ScanCell(current)[2])
    /\ loading' = GetTile(ScanCell(current)[1], ScanCell(current)[2])
    /\ cache' = CacheAfterGet(ScanCell(current)[1], ScanCell(current)[2])
    /\ tiles_cached' = CachedAfterGet(ScanCell(current)[1], ScanCell(current)[2])
    /\ tiles_downloaded' = DownloadedAfterGet(ScanCell(current)[1], ScanCell(current)[2])
    /\ tile_log' = LogAfterGet(ScanCell(current)[1], ScanCell(current)[2])
    /\ pc' = "srtm3_place"
    /\ UNCHANGED <<config_vars, late_vars, current, tiles, tile_data, merged, fill_vars, normalized>>

\* mutant of Srtm3Place: an absent tile is skipped, no zero block is placed
Srtm3PlaceSkipsAbsent ==
    /\ pc = "srtm3_place"
    /\ merged' = IF IsNone(loading) THEN merged
                 ELSE PlaceTile(merged, loading, ScanCell(current)[1],
                                ScanCell(current)[2], TRUE)
    /\ tile_data' = DelTileData(loading)
    /\ loading' = None
    /\ current' = current + 1
    /\ pc' = IF current + 1 < total_tiles THEN "srtm3_get" ELSE "fill"
    /\ UNCHANGED <<config_vars, late_vars, fetch_vars, tiles, fill_vars, normalized>>

\* _download_and_merge_srtm3: tile_data = <result>; decimate; del; place
Srtm3Place ==
    /\ pc = "srtm3_place"
    /\ merged' = PlaceTile(merged, loading, ScanCell(current)[1],
                           ScanCell(current)[2], TRUE)
    /\ tile_data' = DelTileData(loading)
    /\ loading' = None
    /\ current' = current + 1
    /\ pc' = IF current + 1 < total_tiles THEN "srtm3_get" ELSE "fill"
    /\ UNCHANGED <<config_vars, late_vars, fetch_vars, tiles, fill_vars, normalized>>

\* _download_tiles: one pass of the loop, tiles.append((lat, lon, tile_data))
DownloadTile ==
    /\ \/ pc = "start" /\ ~downsample_3x
       \/ pc = "download"
    /\ ~GetTileRaises(ScanCell(current)[1], ScanCell(current)[2])
    /\ tiles' = Append(tiles, <<ScanCell(current)[1], ScanCell(current)[2],
                                GetTile(ScanCell(current)[1], ScanCell(current)[2])>>)
    /\ cache' = CacheAfterGet(ScanCell(current)[1], ScanCell(current)[2])
    /\ tiles_cached' = CachedAfterGet(ScanCell(current)[1], ScanCell(current)[2])
    /\ tiles_downloaded' = DownloadedAfterGet(ScanCell(current)[1], ScanCell(current)[2])
    /\ tile_log' = LogAfterGet(ScanCell(current)[1], ScanCell(current)[2])
    /\ current' = current + 1
    /\ pc' = IF current + 1 < total_tiles THEN "download" ELSE "merge_begin"
    /\ UNCHANGED <<config_vars, late_vars, loading, tile_data, merged, fill_vars, normalized>>

\* _get_tile raises inside the mosaic loop (either mode): the ValueError of
\* _read_hgt leaves run(); main() prints it with the traceback and exits 1.
\* The console names the cell only in _download_tiles ("Processing tile
\* (lat, lon)..."); the streaming loop prints a tile count.
GetTileFails ==
    /\ \/ pc = "srtm3_get"
       \/ pc = "start" /\ ~downsample_3x
       \/ pc = "download"
    /\ GetTileRaises(ScanCell(current)[1], ScanCell(current)[2])
    /\ tiles_cached' = tiles_cached + 1
    /\ failure' = [exc |-> "ValueError", at |-> pc,
                   tile |-> IF pc = "srtm3_get" THEN NoCell ELSE ScanCell(current)]
    /\ pc' = "failed"
    /\ UNCHANGED <<config_vars, mosaic_vars, fill_vars, normalized, cache,
                   tiles_downloaded, tile_log, lod_vars, overview_info,
                   dir_vars, runs>>

\* _merge_tiles: merged = np.zeros((height_px, width_px))
MergeBegin ==
    /\ pc = "merge_begin"
    /\ merged' = Zeros(height_px(downsample_3x), width_px(downsample_3x))
    /\ current' = 0
    /\ pc' = "merge"
    /\ UNCHANGED <<config_vars, late_vars, fetch_vars, tiles, loading, tile_data, fill_vars, normalized>>

\* _merge_tiles: one pass of "for i, (lat, lon, tile_data) in enumerate(tiles)"
MergeTile ==
    /\ pc = "merge"
    /\ merged' = PlaceTile(merged, tiles[current + 1][3], tiles[current + 1][1],
                           tiles[current + 1][2], downsample_3x)
    /\ current' = current + 1
    /\ pc' = IF current + 1 < Len(tiles) THEN "merge" ELSE "fill"
    /\ UNCHANGED <<config_vars, late_vars, fetch_vars, tiles, loading, tile_data, fill_vars, normalized>>

\* _fill_voids: mask, count, early return or start of _simple_void_fill
FillEnter ==
    /\ pc = "fill"
    /\ void_mask' = VoidMask(merged)
    /\ fill_calls' = fill_calls + 1
    /\ IF CountTrue(VoidMask(merged)) = 0
       THEN /\ printed' = Append(printed, <<"no_voids">>)
            /\ pc' = "normalize"
            /\ UNCHANGED <<filled, remaining_voids, iteration>>
       ELSE /\ printed' = Append(printed, <<"found", CountTrue(VoidMask(merged))>>)
            /\ filled' = merged
            /\ remaining_voids' = VoidMask(merged)
            /\ iteration' = 0
            /\ pc' = "fill_loop"
    /\ UNCHANGED <<config_vars, late_vars, fetch_vars, mosaic_vars, voids_filled, normalized>>

\* _simple_void_fill: one iteration of "for iteration in range(max_iterations)"
FillIterate ==
    /\ pc = "fill_loop"
    /\ iteration < max_iterations
    /\ CountTrue(remaining_voids) > 0
    /\ LET pass == FillPass(filled, remaining_voids)
       IN  /\ filled' = pass.new
           /\ remaining_voids' = pass.rem
           /\ printed' = IF iteration % 10 = 0 /\ iteration > 0
                         THEN Append(printed, <<"remaining", iteration, CountTrue(pass.rem)>>)
                         ELSE printed
    /\ iteration' = iteration + 1
    /\ UNCHANGED <<config_vars, late_vars, fetch_vars, mosaic_vars, void_mask, voids_filled, fill_calls,
                   normalized, pc>>

\* _simple_void_fill: break, or end of range; return filled
FillLoopExit ==
    /\ pc = "fill_loop"
    /\ iteration >= max_iterations \/ CountTrue(remaining_voids) = 0
    /\ pc' = "fill_smooth"
    /\ UNCHANGED <<config_vars, late_vars, fetch_vars, mosaic_vars, fill_vars, normalized>>

\* _fill_voids: smoothing, report, statistics; run() rebinds merged
FillSmooth ==
    /\ pc = "fill_smooth"
    /\ merged' = SmoothFilledRegions(filled, void_mask)
    /\ printed' = Append(printed, <<"filled", CountTrue(void_mask)>>)
    /\ voids_filled' = CountTrue(void_mask)
    /\ pc' = "normalize"
    /\ UNCHANGED <<config_vars, late_vars, fetch_vars, current, tiles, loading, tile_data, void_mask,
                   filled, remaining_voids, iteration, fill_calls, normalized>>

\* run(): normalized = self._normalize(merged)
RunNormalize ==
    /\ pc = "normalize"
    /\ normalized' = Normalize(merged)
    /\ pc' = "save"
    /\ UNCHANGED <<config_vars, late_vars, fetch_vars, mosaic_vars, fill_vars>>

\* run(): self._save_png_16bit(normalized, master_path)
SaveMaster ==
    /\ pc = "save"
    /\ master_file' = normalized
    /\ pc' = "lods"
    /\ UNCHANGED <<config_vars, fetch_vars, mosaic_vars, fill_vars, normalized,
                   failure, lod_vars, overview_info, chunk_files, overview_file,
                   metadata_file, palette, runs>>

\* _generate_lods_and_chunk: chunks_info = []; current_lod = master
LodBegin ==
    /\ pc = "lods"
    /\ chunks_info' = <<>>
    /\ current_lod' = normalized
    /\ levels' = <<>>
    /\ lod' = 0
    /\ pc' = "lod_loop"
    /\ UNCHANGED <<config_vars, fetch_vars, mosaic_vars, fill_vars, normalized,
                   failure, overview_info, dir_vars, runs>>

\* _generate_lods_and_chunk: one pass of "for lod in range(LOD_LEVELS)":
\* chunk the level, extend chunks_info, downsample unless it is the last
LodStep ==
    /\ pc = "lod_loop"
    /\ lod < LOD_LEVELS
    /\ chunk_files' = SaveChunks(chunk_files, current_lod, lod)
    /\ chunks_info' = chunks_info \o ChunkRecords(current_lod, lod)
    /\ levels' = Append(levels, current_lod)
    /\ current_lod' = IF lod < LOD_LEVELS - 1 THEN Downsample(current_lod)
                      ELSE current_lod
    /\ lod' = lod + 1
    /\ pc' = IF lod + 1 < LOD_LEVELS THEN "lod_loop" ELSE "overview"
    /\ UNCHANGED <<config_vars, fetch_vars, mosaic_vars, fill_vars, normalized,
                   failure, overview_info, master_file, overview_file,
                   metadata_file, palette, runs>>

\* _generate_overview_texture: sample, colour, save, return the info
GenerateOverview ==
    /\ pc = "overview"
    /\ ~OverviewRaises(normalized)
    /\ overview_file' = OverviewTexture(normalized, palette)
    /\ overview_info' = OverviewInfo(normalized)
    /\ printed' = IF PaletteLoaded(palette) THEN printed
                  ELSE Append(printed, <<"warn_palette">>)
    /\ pc' = "metadata"
    /\ UNCHANGED <<config_vars, fetch_vars, mosaic_vars, void_mask, filled,
                   remaining_voids, iteration, voids_filled, fill_calls,
                   normalized, failure, lod_vars, master_file, chunk_files,
                   metadata_file, palette, runs>>

\* _generate_overview_texture raises; main() reports it and exits 1
OverviewFails ==
    /\ pc = "overview"
    /\ OverviewRaises(normalized)
    /\ failure' = [exc |-> "ZeroDivisionError", at |-> pc, tile |-> NoCell]
    /\ pc' = "failed"
    /\ UNCHANGED <<config_vars, fetch_vars, mosaic_vars, fill_vars, normalized,
                   lod_vars, overview_info, dir_vars, runs>>

\* _generate_metadata(normalized.shape, chunks_info, overview_info)
GenerateMetadata ==
    /\ pc = "metadata"
    /\ metadata_file' = Metadata(normalized, chunks_info, overview_info)
    /\ pc' = "cells"
    /\ UNCHANGED <<config_vars, fetch_vars, mosaic_vars, fill_vars, normalized,
                   failure, lod_vars, overview_info, master_file, chunk_files,
                   overview_file, palette, runs>>

\* run(): step 8 and the summary.  The cell textures are written by
\* generate_cell_textures.run_generation, a separate tool.
FinishRun ==
    /\ pc = "cells"
    /\ pc' = "done"
    /\ UNCHANGED <<config_vars, fetch_vars, mosaic_vars, fill_vars, normalized,
                   late_vars>>

\* run() has returned or main() has exited
Ended == pc \in {"done", "interrupted", "failed"}

\* main(): except KeyboardInterrupt: ... sys.exit(1)
Interrupt ==
    /\ ~Ended
    /\ failure' = [exc |-> "KeyboardInterrupt", at |-> pc, tile |-> NoCell]
    /\ pc' = "interrupted"
    /\ UNCHANGED <<config_vars, fetch_vars, mosaic_vars, fill_vars, normalized,
                   lod_vars, overview_info, dir_vars, runs>>

Next ==
    \/ Srtm3Begin
    \/ Srtm3GetTile
    \/ Srtm3Place
    \/ DownloadTile
    \/ MergeBegin
    \/ MergeTile
    \/ FillEnter
    \/ FillIterate
    \/ FillLoopExit
    \/ FillSmooth
    \/ RunNormalize

Spec == Init /\ [][Next]_vars

\* --------------------------------------------- the Void Filler on its own
\* side of the square buffers handed to _fill_voids
BufSide == 5

\* rectangles of the buffer, rows y0..y1 and columns x0..x1
Rects ==
    {[y0 |-> a, y1 |-> b, x0 |-> c, x1 |-> d] :
        a \in 0 .. BufSide - 1, b \in 0 .. BufSide - 1,
        c \in 0 .. BufSide - 1, d \in 0 .. BufSide - 1}
InRect(r, p) == r.y0 <= p[1] /\ p[1] <= r.y1 /\ r.x0 <= p[2] /\ p[2] <= r.x1

\* valid elevations: a flat plain, or a ramp that starts below sea level
ValidElevation(val, p) == IF val = "flat" THEN 100 ELSE 7 * p[1] + 3 * p[2] - 5

\* a buffer whose void pixels are a rectangle ("block"), or all but a
\* rectangle ("frame"); an empty rectangle (y1 < y0) gives no void / all void
Buffer(shape, r, val) ==
    [p \in Grid(BufSide, BufSide) |->
        IF (shape = "block") = InRect(r, p) THEN SRTM_NODATA
        ELSE ValidElevation(val, p)]

Buffers ==
    {Buffer(shape, r, val) :
        shape \in {"block", "frame"}, r \in Rects, val \in {"flat", "ramp"}}

InitFill ==
    /\ bbox = UnitBox
    /\ resolution_key = "srtm1"
    /\ max_elevation_m = 4810
    /\ source = [cell \in Cells |-> "land"]
    /\ pc = "fill"
    /\ current = 0
    /\ tiles = <<>>
    /\ loading = None
    /\ tile_data = None
    /\ merged \in Buffers
    /\ void_mask = Unallocated
    /\ filled = Unallocated
    /\ remaining_voids = Unallocated
    /\ iteration = 0
    /\ printed = <<>>
    /\ voids_filled = 0
    /\ fill_calls = 0
    /\ normalized = Unallocated
    /\ EmptyCache
    /\ NothingProduced
    /\ EmptyDirectory
    /\ palette = "missing"
    /\ runs = 1

\* _fill_voids is applied again, to the buffer it returned
MaxFillCalls == 2
FillAgain ==
    /\ pc = "normalize"
    /\ fill_calls < MaxFillCalls
    /\ pc' = "fill"
    /\ UNCHANGED <<config_vars, late_vars, fetch_vars, mosaic_vars, fill_vars, normalized>>

NextFill ==
    \/ FillAgain
    \/ FillEnter
    \/ FillIterate
    \/ FillLoopExit
    \/ FillSmooth
    \/ RunNormalize

FillSpec == InitFill /\ [][NextFill]_vars

\* ----------------------------------------------- the Normalizer on its own
Int16 == -32768 .. 32767

InitNorm ==
    /\ bbox = UnitBox
    /\ resolution_key = "srtm1"
    /\ max_elevation_m \in MaxElevations
    /\ source = [cell \in Cells |-> "land"]
    /\ pc = "normalize"
    /\ current = 0
    /\ tiles = <<>>
    /\ loading = None
    /\ tile_data = None
    /\ \E e \in Int16 : merged = [p \in Grid(1, 1) |-> e]
    /\ void_mask = Unallocated
    /\ filled = Unallocated
    /\ remaining_voids = Unallocated
    /\ iteration = 0
    /\ printed = <<>>
    /\ voids_filled = 0
    /\ fill_calls = 0
    /\ normalized = Unallocated
    /\ EmptyCache
    /\ NothingProduced
    /\ EmptyDirectory
    /\ palette = "missing"
    /\ runs = 1

NextNorm == RunNormalize

NormSpec == InitNorm /\ [][NextNorm]_vars

\* ------------------------------------------ the LOD pyramid on its own
\* largest side of the buffers handed to _generate_lods_and_chunk, in chunks
LodChunks == 2
LodSide == LodChunks * CHUNK_SIZE_PX

\* normalized values: sea level everywhere, a ramp, or sea level with the
\* last column at the top of the range
LodValue(val, w, p) ==
    CASE val = "flat" -> SEA_LEVEL_UINT16
      [] val = "ramp" -> SEA_LEVEL_UINT16 + 7 * p[1] + 3 * p[2]
      [] OTHER -> IF p[2] = w - 1 THEN 65535 ELSE SEA_LEVEL_UINT16

LodBuffers ==
    {[p \in Grid(h, w) |-> LodValue(val, w, p)] :
        h \in 1 .. LodSide, w \in 1 .. LodSide, val \in {"flat", "ramp", "ridge"}}

InitLod ==
    /\ bbox = UnitBox
    /\ resolution_key = "srtm1"
    /\ max_elevation_m = 4810
    /\ source = [cell \in Cells |-> "land"]
    /\ pc = "lods"
    /\ current = 0
    /\ tiles = <<>>
    /\ loading = None
    /\ tile_data = None
    /\ merged = Unallocated
    /\ void_mask = Unallocated
    /\ filled = Unallocated
    /\ remaining_voids = Unallocated
    /\ iteration = 0
    /\ printed = <<>>
    /\ voids_filled = 0
    /\ fill_calls = 0
    /\ normalized \in LodBuffers
    /\ EmptyCache
    /\ NothingProduced
    /\ EmptyDirectory
    /\ palette = "missing"
    /\ runs = 1

NextLod ==
    \/ LodBegin
    \/ LodStep

LodSpec == InitLod /\ [][NextLod]_vars

\* ------------------------------------- TerrainValidator (validate_output)
\* "for lod in range(5)" of the validator's checks
ValidatorLods == 5

\* the PNG files under chunks/lod<l>/
LodFiles(l) == {path \in DOMAIN chunk_files : path[2] = l}

\* _check_master_exists
CheckMasterExists == DOMAIN master_file # {}
\* _check_master_format: Image.open raises when the file is missing; the
\* mode is that of _save_png_16bit; the dimensions are not zero
CheckMasterFormat ==
    /\ DOMAIN master_file # {}
    /\ Width(master_file) # 0 /\ Height(master_file) # 0
\* _check_master_visual: not all black, not all white
CheckMasterVisual ==
    /\ DOMAIN master_file # {}
    /\ \E p \in DOMAIN master_file : master_file[p] # 0
    /\ \E p \in DOMAIN master_file : master_file[p] # 65535
\* _check_metadata_exists
CheckMetadataExists == metadata_file.exists
\* _check_metadata_valid: the file loads and has the required fields, which
\* _generate_metadata always writes
CheckMetadataValid == metadata_file.exists
\* _check_lod_structure: chunks/lod0 .. lod4 exist and hold a PNG each (a
\* level directory is created together with its first chunks)
CheckLodStructure == \A l \in 0 .. ValidatorLods - 1 : LodFiles(l) # {}
\* _check_chunk_formats: the first file globbed in each level directory is
\* CHUNK_SIZE_PX square and 16-bit; any file can be globbed first
CheckChunkFormats ==
    \A l \in 0 .. ValidatorLods - 1 :
      \A path \in LodFiles(l) :
        DOMAIN chunk_files[path] = Grid(CHUNK_SIZE_PX, CHUNK_SIZE_PX)
\* _check_lod_progression: warnings only
CheckLodProgression == TRUE
\* _check_metadata_consistency
CheckMetadataConsistency ==
    LET metadata_chunks == {metadata_file.chunks[i].path : i \in DOMAIN metadata_file.chunks}
        disk_chunks == DOMAIN chunk_files
    IN  /\ metadata_file.exists
        /\ metadata_chunks \ disk_chunks = {}
        /\ disk_chunks \ metadata_chunks = {}
        /\ Len(metadata_file.chunks) = metadata_file.total_chunks
\* _check_lod_correspondence: warnings only
CheckLodCorrespondence == TRUE

\* TerrainValidator.validate(): failed == 0 (a check that raises counts as
\* failed)
Validate ==
    /\ CheckMasterExists
    /\ CheckMasterFormat
    /\ CheckMasterVisual
    /\ CheckMetadataExists
    /\ CheckMetadataValid
    /\ CheckLodStructure
    /\ CheckChunkFormats
    /\ CheckLodProgression
    /\ CheckMetadataConsistency
    /\ CheckLodCorrespondence

\* ------------------------------------ runs into one output directory
\* runs started on the same output directory
MaxRuns == 2

\* normalized values around the water threshold of the overview (elevation
\* 5 m is code 1067.08 for max_elevation_m = 4810) and up the range
OutValue(k) ==
    CASE k % 5 = 0 -> SEA_LEVEL_UINT16
      [] k % 5 = 1 -> 1068
      [] k % 5 = 2 -> 1067
      [] k % 5 = 3 -> 30000
      [] OTHER -> 65535

\* heights and widths of the masters: a single pixel, one and several
\* chunks, and a strip so flat that the overview has no row
OutShapes == {<<1, 1>>, <<2, 2>>, <<2, 3>>, <<3, 3>>, <<1, 2 * OverviewWidth>>}
OutBuffers ==
    {[p \in Grid(shape[1], shape[2]) |-> OutValue(p[1] * shape[2] + p[2])] :
        shape \in OutShapes}

InitOut ==
    /\ bbox = UnitBox
    /\ resolution_key = "srtm1"
    /\ max_elevation_m = 4810
    /\ source = [cell \in Cells |-> "land"]
    /\ pc = "save"
    /\ current = 0
    /\ tiles = <<>>
    /\ loading = None
    /\ tile_data = None
    /\ merged = Unallocated
    /\ void_mask = Unallocated
    /\ filled = Unallocated
    /\ remaining_voids = Unallocated
    /\ iteration = 0
    /\ printed = <<>>
    /\ voids_filled = 0
    /\ fill_calls = 0
    /\ normalized \in OutBuffers
    /\ EmptyCache
    /\ NothingProduced
    /\ EmptyDirectory
    /\ palette \in PaletteKinds
    /\ runs = 1

\* the tool is run again on the directory of a completed run, for a region
\* that gives another master
RunAgain ==
    /\ pc = "done"
    /\ runs < MaxRuns
    /\ runs' = runs + 1
    /\ normalized' \in OutBuffers
    /\ printed' = <<>>
    /\ failure' = NoFailure
    /\ lod' = 0
    /\ current_lod' = Unallocated
    /\ levels' = <<>>
    /\ chunks_info' = <<>>
    /\ overview_info' = NoOverview
    /\ pc' = "save"
    /\ UNCHANGED <<config_vars, fetch_vars, mosaic_vars, void_mask, filled,
                   remaining_voids, iteration, voids_filled, fill_calls, dir_vars>>

NextOut ==
    \/ SaveMaster
    \/ LodBegin
    \/ LodStep
    \/ GenerateOverview
    \/ OverviewFails
    \/ GenerateMetadata
    \/ FinishRun
    \/ Interrupt
    \/ RunAgain

OutSpec == InitOut /\ [][NextOut]_vars

\* ------------------------------------------------- run_overview_only
\* mutant of MetadataWithOverview: the file is written whether or not it
\* existed
MetadataAlwaysWritten(metadata, info) ==
    [metadata EXCEPT !.exists = TRUE, !.overview = info]

\* run_overview_only: terrain_metadata.json after the call; when the file
\* exists it is loaded, the five overview entries are assigned and the dict
\* is dumped again, otherwise no file is written
MetadataWithOverview(metadata, info) ==
    IF metadata.exists THEN [metadata EXCEPT !.overview = info] ELSE metadata

\* main() with --overview-only on a directory no run is working on:
\* run_overview_only() exits when there is no master heightmap, else loads
\* it, generates the overview texture and updates the metadata
OverviewOnly ==
    /\ Ended
    /\ IF DOMAIN master_file = {}
       THEN /\ failure' = [exc |-> "SystemExit", at |-> "overview_only", tile |-> NoCell]
            /\ printed' = <<<<"master_not_found">>>>
            /\ pc' = "failed"
            /\ UNCHANGED <<overview_file, overview_info, metadata_file>>
       ELSE IF OverviewRaises(master_file)
       THEN /\ failure' = [exc |-> "ZeroDivisionError", at |-> "overview_only",
                           tile |-> NoCell]
            /\ printed' = <<>>
            /\ pc' = "failed"
            /\ UNCHANGED <<overview_file, overview_info, metadata_file>>
       ELSE /\ failure' = [exc |-> "none", at |-> "overview_only", tile |-> NoCell]
            /\ overview_file' = OverviewTexture(master_file, palette)
            /\ overview_info' = OverviewInfo(master_file)
            /\ metadata_file' = MetadataWithOverview(metadata_file, OverviewInfo(master_file))
            /\ printed' = (IF PaletteLoaded(palette) THEN <<>> ELSE <<<<"warn_palette">>>>)
                          \o (IF metadata_file.exists THEN <<>>
                              ELSE <<<<"warn_no_metadata">>>>)
            /\ pc' = "done"
    /\ UNCHANGED <<config_vars, fetch_vars, mosaic_vars, void_mask, filled,
                   remaining_voids, iteration, voids_filled, fill_calls,
                   normalized, lod_vars, master_file, chunk_files, palette, runs>>

NextOv ==
    \/ SaveMaster
    \/ LodBegin
    \/ LodStep
    \/ GenerateOverview
    \/ OverviewFails
    \/ GenerateMetadata
    \/ FinishRun
    \/ Interrupt
    \/ RunAgain
    \/ OverviewOnly

OvSpec == InitOut /\ [][NextOv]_vars

\* ------------------------------------------- tile fetching with failures
\* boxes of one cell and of two cells side by side
FetchBoxes ==
    {UnitBox, [lat_min2 |-> -2, lat_max2 |-> 0, lon_min2 |-> -2, lon_max2 |-> 2]}

\* every outcome of a download and every cached file, for the cells of the box
FetchSources(b) ==
    {[cell \in Cells |-> IF cell \in BoxCells(b) THEN f[cell] ELSE "land"] :
        f \in [BoxCells(b) -> DownloadKinds]}
FetchCaches(b) ==
    {[cell \in Cells |-> IF cell \in BoxCells(b) THEN f[cell] ELSE "missing"] :
        f \in [BoxCells(b) -> FileKinds]}

InitFetch ==
    /\ bbox \in FetchBoxes
    /\ resolution_key \in {"srtm1", "srtm3"}
    /\ max_elevation_m = 4810
    /\ source \in FetchSources(bbox)
    /\ pc = "start"
    /\ current = 0
    /\ tiles = <<>>
    /\ loading = None
    /\ tile_data = None
    /\ merged = Unallocated
    /\ void_mask = Unallocated
    /\ filled = Unallocated
    /\ remaining_voids = Unallocated
    /\ iteration = 0
    /\ printed = <<>>
    /\ voids_filled = 0
    /\ fill_calls = 0
    /\ normalized = Unallocated
    /\ cache \in FetchCaches(bbox)
    /\ tiles_downloaded = 0
    /\ tiles_cached = 0
    /\ tile_log = <<>>
    /\ NothingProduced
    /\ EmptyDirectory
    /\ palette = "missing"
    /\ runs = 1

NextFetch ==
    \/ Srtm3Begin
    \/ Srtm3GetTile
    \/ Srtm3Place
    \/ DownloadTile
    \/ GetTileFails
    \/ MergeBegin
    \/ MergeTile

FetchSpec == InitFetch /\ [][NextFetch]_vars

\* ------------------------------------------- tile placement on its own
\* cells of tiles handed to _merge_tiles that are not cells of the box:
\* south, west, north and east of every box of the model
StrayCells == {<<-2, -1>>, <<-1, -2>>, <<MaxSpan, -1>>, <<-1, MaxSpan>>, <<-2, -2>>}
StrayTiles == {<<cell[1], cell[2], [kind |-> "land", lat |-> cell[1], lon |-> cell[2]]>> :
                 cell \in StrayCells}
\* tile lists of one or two such tiles
StrayLists == {<<a>> : a \in StrayTiles} \cup {<<a, b>> : a \in StrayTiles, b \in StrayTiles}

\* either run() from its start, or _merge_tiles called with a list of tiles
\* of cells outside the box
InitClip ==
    /\ bbox \in Boxes
    /\ resolution_key \in {"srtm1", "srtm3"}
    /\ max_elevation_m = 4810
    /\ source \in Sources(bbox)
    /\ \/ pc = "start" /\ tiles = <<>>
       \/ /\ pc = "merge_begin"
          /\ tiles \in StrayLists
          /\ source = [cell \in Cells |-> "land"]
    /\ current = 0
    /\ loading = None
    /\ tile_data = None
    /\ merged = Unallocated
    /\ void_mask = Unallocated
    /\ filled = Unallocated
    /\ remaining_voids = Unallocated
    /\ iteration = 0
    /\ printed = <<>>
    /\ voids_filled = 0
    /\ fill_calls = 0
    /\ normalized = Unallocated
    /\ EmptyCache
    /\ NothingProduced
    /\ EmptyDirectory
    /\ palette = "missing"
    /\ runs = 1

NextClip ==
    \/ Srtm3Begin
    \/ Srtm3GetTile
    \/ Srtm3Place
    \/ DownloadTile
    \/ MergeBegin
    \/ MergeTile

ClipSpec == InitClip /\ [][NextClip]_vars

\* ------------------------------- from elevation to overview colour
\* elevations around sea level and the water threshold, and around the top
\* of the range
ConvElevations(max_elev) == (-2 .. 12) \cup (max_elev - 1 .. max_elev + 1)

\* a mosaic of one row: the elevation under test, and land
InitConv ==
    /\ bbox = UnitBox
    /\ resolution_key = "srtm1"
    /\ max_elevation_m \in MaxElevations
    /\ source = [cell \in Cells |-> "land"]
    /\ pc = "normalize"
    /\ current = 0
    /\ tiles = <<>>
    /\ loading = None
    /\ tile_data = None
    /\ \E e \in ConvElevations(max_elevation_m) :
         merged = [p \in Grid(1, 2) |-> IF p[2] = 0 THEN e ELSE 100]
    /\ void_mask = Unallocated
    /\ filled = Unallocated
    /\ remaining_voids = Unallocated
    /\ iteration = 0
    /\ printed = <<>>
    /\ voids_filled = 0
    /\ fill_calls = 0
    /\ normalized = Unallocated
    /\ EmptyCache
    /\ NothingProduced
    /\ EmptyDirectory
    /\ palette = "missing"
    /\ runs = 1

NextConv ==
    \/ RunNormalize
    \/ SaveMaster
    \/ LodBegin
    \/ LodStep
    \/ GenerateOverview

ConvSpec == InitConv /\ [][NextConv]_vars

\* ------------------------------- a cache filled by generate_test_data
\* the cells generate_test_data.main writes a tile for (the program: the
\* cells of its test region)
TestCells == Cells

\* generate_test_data.main: one file per cell, created or overwritten
GenerateTestData ==
    /\ pc = "gen"
    /\ cache' = [cell \in Cells |-> IF cell \in TestCells THEN "test" ELSE cache[cell]]
    /\ pc' = "start"
    /\ UNCHANGED <<config_vars, late_vars, mosaic_vars, fill_vars, normalized,
                   tiles_downloaded, tiles_cached, tile_log>>

\* the cache directory holds nothing or downloaded tiles; generate_test_data
\* is run, then process_terrain on the same cache directory
InitGen ==
    /\ bbox \in Boxes
    /\ resolution_key \in {"srtm1", "srtm3"}
    /\ max_elevation_m = 4810
    /\ source = [cell \in Cells |-> "land"]
    /\ pc = "gen"
    /\ current = 0
    /\ tiles = <<>>
    /\ loading = None
    /\ tile_data = None
    /\ merged = Unallocated
    /\ void_mask = Unallocated
    /\ filled = Unallocated
    /\ remaining_voids = Unallocated
    /\ iteration = 0
    /\ printed = <<>>
    /\ voids_filled = 0
    /\ fill_calls = 0
    /\ normalized = Unallocated
    /\ cache \in [Cells -> {"missing", "land"}]
    /\ tiles_downloaded = 0
    /\ tiles_cached = 0
    /\ tile_log = <<>>
    /\ NothingProduced
    /\ EmptyDirectory
    /\ palette = "missing"
    /\ runs = 1

NextGen ==
    \/ GenerateTestData
    \/ Srtm3Begin
    \/ GetTileFails

GenSpec == InitGen /\ [][NextGen]_vars

\* ----------------- the two decimated mosaics, called one after the other
\* the cells _get_tile was asked for or raised on, in order: it logs a cell
\* it returns a tile or None for, and raises on the cell being scanned
CellsFetched ==
    [i \in 1 .. Len(tile_log) + (IF pc = "failed" THEN 1 ELSE 0) |->
        IF i <= Len(tile_log) THEN tile_log[i].cell ELSE ScanCell(current)]

\* _download_and_merge_srtm3 has returned or raised; its outcome is kept,
\* the cache directory is put back as it was, and _download_tiles followed
\* by _merge_tiles is called on the same box and Tile Source
CallTwoPhase ==
    /\ pc \in {"fill", "failed"}
    /\ ~reference.done
    /\ reference' = [done |-> TRUE, raised |-> pc = "failed", result |-> merged,
                     fetched |-> CellsFetched, cache |-> reference.cache]
    /\ cache' = reference.cache
    /\ tiles_downloaded' = 0
    /\ tiles_cached' = 0
    /\ tile_log' = <<>>
    /\ failure' = NoFailure
    /\ merged' = Unallocated
    /\ current' = 0
    /\ pc' = "download"
    /\ UNCHANGED <<bbox, resolution_key, max_elevation_m, source, tiles, loading,
                   tile_data, fill_vars, normalized, lod_vars, overview_info,
                   dir_vars, runs>>

\* caches: empty, or with the first cell of the scan holding a file of the
\* wrong size, or with the last cell holding a tile
EquivCaches(b) ==
    LET first == <<Floor(b.lat_min2, 2), Floor(b.lon_min2, 2)>>
        last == <<Ceil(b.lat_max2, 2) - 1, Ceil(b.lon_max2, 2) - 1>>
    IN  {[cell \in Cells |-> "missing"],
         [cell \in Cells |-> IF cell = first THEN "malformed" ELSE "missing"],
         [cell \in Cells |-> IF cell = last THEN "land" ELSE "missing"]}

InitEquiv ==
    /\ bbox \in Boxes
    /\ resolution_key = "srtm3"
    /\ max_elevation_m = 4810
    /\ source \in Sources(bbox)
    /\ pc = "start"
    /\ current = 0
    /\ tiles = <<>>
    /\ loading = None
    /\ tile_data = None
    /\ merged = Unallocated
    /\ void_mask = Unallocated
    /\ filled = Unallocated
    /\ remaining_voids = Unallocated
    /\ iteration = 0
    /\ printed = <<>>
    /\ voids_filled = 0
    /\ fill_calls = 0
    /\ normalized = Unallocated
    /\ cache \in EquivCaches(bbox)
    /\ tiles_downloaded = 0
    /\ tiles_cached = 0
    /\ tile_log = <<>>
    /\ failure = NoFailure
    /\ lod = 0
    /\ current_lod = Unallocated
    /\ levels = <<>>
    /\ chunks_info = <<>>
    /\ overview_info = NoOverview
    /\ reference = [NoReference EXCEPT !.cache = cache]
    /\ EmptyDirectory
    /\ palette = "missing"
    /\ runs = 1

NextEquiv ==
    \/ Srtm3Begin
    \/ Srtm3GetTile
    \/ Srtm3Place
    \/ GetTileFails
    \/ CallTwoPhase
    \/ DownloadTile
    \/ MergeBegin
    \/ MergeTile

EquivSpec == InitEquiv /\ [][NextEquiv]_vars

\* ================================================================= claims
\* ------------------------------------------------- helpers of the claims
MosaicDone == pc = "fill" /\ fill_calls = 0
WholeDegreeBox ==
    /\ bbox.lat_min2 % 2 = 0 /\ bbox.lat_max2 % 2 = 0
    /\ bbox.lon_min2 % 2 = 0 /\ bbox.lon_max2 % 2 = 0
ClaimPxPerDegree == IF resolution_key = "srtm3" THEN Scale ELSE 3 * Scale
ClaimStride == IF resolution_key = "srtm3" THEN 3 ELSE 1
\* the sample a cell contributes at row r, column c of its block
CellSample(cell, r, c) ==
    IF source[cell] = "absent" THEN 0
    ELSE IF source[cell] = "void" THEN SRTM_NODATA
    ELSE LandSample(cell[1], cell[2], ClaimStride * r, ClaimStride * c)
\* the block of a cell covers pixel p
Covers(cell, p) ==
    /\ YOffset(cell[1], downsample_3x) <= p[1]
    /\ p[1] <= YOffset(cell[1], downsample_3x) + ClaimPxPerDegree
    /\ XOffset(cell[2], downsample_3x) <= p[2]
    /\ p[2] <= XOffset(cell[2], downsample_3x) + ClaimPxPerDegree
\* scan order: latitude ascending, then longitude ascending
ScannedAfter(a, b) == a[1] > b[1] \/ (a[1] = b[1] /\ a[2] > b[2])

\* C1: on a whole-degree box whose tiles are all present and void-free, in
\* both modes, every interior pixel of a cell's block (rows and columns
\* 1 .. px_per_degree - 1 from the offset (lat_max - (lat+1)) * px_per_degree,
\* (lon - lon_min) * px_per_degree) equals the tile's sample there (the
\* stride-3 sample in decimated mode).
C1_InteriorExact ==
    (MosaicDone /\ WholeDegreeBox /\ \A cell \in BoxCells(bbox) : source[cell] = "land")
    => \A cell \in BoxCells(bbox) :
         \A r \in 1 .. ClaimPxPerDegree - 1, c \in 1 .. ClaimPxPerDegree - 1 :
           merged[<<((bbox.lat_max2 \div 2) - (cell[1] + 1)) * ClaimPxPerDegree + r,
                    (cell[2] - (bbox.lon_min2 \div 2)) * ClaimPxPerDegree + c>>]
             = LandSample(cell[1], cell[2], ClaimStride * r, ClaimStride * c)

C1_Witness ==
    /\ MosaicDone /\ WholeDegreeBox /\ downsample_3x
    /\ \A cell \in BoxCells(bbox) : source[cell] = "land"
    /\ total_tiles >= 4
    /\ ClaimPxPerDegree >= 2

\* C6 as stated: every pixel of an absent cell's block holds 0 (so is not
\* void) once the mosaic is built.
C6_AbsentBlockAllZero ==
    MosaicDone
    => \A cell \in BoxCells(bbox) :
         source[cell] = "absent"
         => \A p \in DOMAIN merged : Covers(cell, p) => merged[p] = 0

\* a pixel of a cell's block that no tile later in scan order also covers
OwnPixel(cell, p) ==
    /\ Covers(cell, p)
    /\ \A other \in BoxCells(bbox) : ScannedAfter(other, cell) => ~Covers(other, p)

\* the pixels p of the buffer with OwnPixel(cell, p)
OwnPixels(cell) ==
    LET ppd == ClaimPxPerDegree
        yo == [lat \in lat_min_i .. lat_max_i - 1 |-> YOffset(lat, downsample_3x)]
        xo == [lon \in lon_min_i .. lon_max_i - 1 |-> XOffset(lon, downsample_3x)]
        rows == {y \in Max(0, yo[cell[1]]) .. Min(height_px(downsample_3x) - 1, yo[cell[1]] + ppd) :
                   \A lat \in DOMAIN yo :
                     lat > cell[1] => ~(yo[lat] <= y /\ y <= yo[lat] + ppd)}
        cols == {x \in Max(0, xo[cell[2]]) .. Min(width_px(downsample_3x) - 1, xo[cell[2]] + ppd) :
                   \A lon \in DOMAIN xo :
                     lon > cell[2] => ~(xo[lon] <= x /\ x <= xo[lon] + ppd)}
    IN  rows \X cols

\* C6 amended: in both modes, every pixel of an absent cell's block that no
\* later-scanned tile also covers holds 0 after the mosaic, is false in the
\* VoidMask, is left at 0 by the Void Filler and normalizes to the sea-level
\* code; the shared north border row and east border column hold the later
\* tile's samples.
C6_AbsentOwnPixelsSeaLevel ==
    pc \in {"fill", "fill_loop", "fill_smooth", "normalize", "save"}
    => \A cell \in BoxCells(bbox) :
         source[cell] = "absent"
         => \A p \in OwnPixels(cell) :
              /\ merged[p] = 0
              /\ pc # "fill" => ~void_mask[p]
              /\ pc = "save" => normalized[p] = SEA_LEVEL_UINT16

\* the two descriptions of a cell's own pixels agree
OwnPixelsAgree ==
    pc = "fill"
    => \A cell \in BoxCells(bbox) :
         OwnPixels(cell) = {p \in DOMAIN merged : OwnPixel(cell, p)}

C6_Witness ==
    /\ pc = "save"
    /\ \E cell \in BoxCells(bbox) :
         /\ source[cell] = "absent"
         /\ \E p \in OwnPixels(cell) : normalized[p] = SEA_LEVEL_UINT16
         /\ \E other \in BoxCells(bbox) : ScannedAfter(other, cell) /\ source[other] = "void"

\* C7: when the mosaic is built, every pixel holds exactly the sample of the
\* last tile in scan order (latitude ascending, then longitude ascending)
\* among the tiles whose block covers it; no averaging.
C7_LastWriteWins ==
    MosaicDone
    => LET yo == [lat \in lat_min_i .. lat_max_i - 1 |-> YOffset(lat, downsample_3x)]
           xo == [lon \in lon_min_i .. lon_max_i - 1 |-> XOffset(lon, downsample_3x)]
           \* latitudes and longitudes of the cells whose block covers row y, column x
           lats(y) == {lat \in DOMAIN yo : yo[lat] <= y /\ y <= yo[lat] + ClaimPxPerDegree}
           lons(x) == {lon \in DOMAIN xo : xo[lon] <= x /\ x <= xo[lon] + ClaimPxPerDegree}
       IN  \A p \in DOMAIN merged :
             /\ lats(p[1]) # {} /\ lons(p[2]) # {}
             /\ LET lat == CHOOSE a \in lats(p[1]) : \A b \in lats(p[1]) : a >= b
                    lon == CHOOSE a \in lons(p[2]) : \A b \in lons(p[2]) : a >= b
                IN  merged[p] = CellSample(<<lat, lon>>, p[1] - yo[lat], p[2] - xo[lon])

C7_Witness ==
    /\ MosaicDone
    /\ \E p \in DOMAIN merged :
         Cardinality({cell \in BoxCells(bbox) : Covers(cell, p)}) = 4

\* C8 as stated: at most one native tile is held, in both modes.
C8_OneNativeTileBothModes == NativeTilesHeld <= 1

\* C8 amended: in decimated mode at most one native tile is held at any
\* time, whatever the box size (the tile is released before the next fetch);
\* in full mode every fetched tile stays held, so all present tiles of the
\* box are held while they are merged.
C8_OneNativeTileDecimated ==
    /\ downsample_3x => NativeTilesHeld <= 1
    /\ (~downsample_3x /\ pc \in {"merge_begin", "merge", "fill"})
       => NativeTilesHeld = Cardinality({cell \in BoxCells(bbox) : source[cell] # "absent"})

C8_Witness ==
    /\ downsample_3x
    /\ pc = "srtm3_place"
    /\ current >= 1
    /\ source[ScanCell(current - 1)] # "absent"
    /\ ~IsNone(loading)
    /\ NativeTilesHeld = 1

HasNoData(d) == \E p \in DOMAIN d : d[p] = SRTM_NODATA
InFillVoids == pc \in {"fill", "fill_loop", "fill_smooth"}
AfterFillVoids == pc \in {"normalize", "save"} /\ fill_calls > 0
\* the last call of _fill_voids ran the fill and smoothing passes
LastCallFilled == Len(printed) > 0 /\ printed[Len(printed)][1] = "filled"

\* the VoidMask of the current call is one 3x3 block with valid pixels all around
IsolatedBlock3 ==
    /\ DOMAIN void_mask # {}
    /\ \E y0 \in 1 .. BufSide - 4, x0 \in 1 .. BufSide - 4 :
         \A p \in DOMAIN void_mask :
           void_mask[p] <=> (/\ y0 <= p[1] /\ p[1] <= y0 + 2
                             /\ x0 <= p[2] /\ p[2] <= x0 + 2)

\* C2: for a buffer whose only voids are one isolated 3x3 block, the output
\* of the fill pass holds no sentinel and no pixel is left marked void, and
\* neither does the buffer _fill_voids returns.
C2_IsolatedBlockResolved ==
    IsolatedBlock3
    => /\ pc = "fill_smooth"
          => ~HasNoData(filled) /\ CountTrue(remaining_voids) = 0
       /\ (AfterFillVoids /\ LastCallFilled) => ~HasNoData(merged)

\* C3: _fill_voids applied to a buffer without sentinel returns it unchanged
\* (no fill, no smoothing, no statistics), on a first call and on a call
\* applied to its own void-free output.
C3_VoidFreeUnchanged ==
    [][(pc = "fill" /\ ~HasNoData(merged))
       => /\ pc' = "normalize"
          /\ merged' = merged
          /\ filled' = filled
          /\ voids_filled' = voids_filled]_vars

C3_Witness ==
    /\ pc = "normalize"
    /\ fill_calls = 2
    /\ voids_filled > 0
    /\ printed[Len(printed)] = <<"no_voids">>
    /\ ~HasNoData(merged)

\* C4: no step of _fill_voids changes a pixel that is not the sentinel in
\* its input: the mask computed at entry stays as computed, the fill pass
\* leaves unmasked pixels at their input value, and the returned buffer
\* differs from the input only where the mask is true.
C4_ValidPixelsUntouched ==
    [][InFillVoids
       => /\ \A p \in DOMAIN merged :
               merged[p] # SRTM_NODATA => merged'[p] = merged[p]
          /\ pc' \in {"fill_loop", "fill_smooth"}
             => /\ void_mask' = [p \in DOMAIN merged |-> merged[p] = SRTM_NODATA]
                /\ \A p \in DOMAIN merged : ~void_mask'[p] => filled'[p] = merged[p]
          /\ \A p \in DOMAIN merged : merged'[p] # merged[p] => void_mask[p]]_vars

C4_Witness ==
    /\ AfterFillVoids /\ LastCallFilled
    /\ \E p \in DOMAIN merged : ~void_mask[p] /\ merged[p] # 100
    /\ \E p \in DOMAIN merged : void_mask[p] /\ merged[p] # SRTM_NODATA

\* C5: when the fill pass ends with pixels still marked void, the count
\* reported as filled (message and stats['voids_filled']) is the number of
\* pixels actually filled, and the number left unresolved is reported.
C5_ResidualReported ==
    (AfterFillVoids /\ LastCallFilled /\ CountTrue(remaining_voids) > 0)
    => /\ voids_filled = CountTrue(void_mask) - CountTrue(remaining_voids)
       /\ printed[Len(printed)][2] = CountTrue(void_mask) - CountTrue(remaining_voids)
       /\ \E i \in 1 .. Len(printed) :
            /\ printed[i][1] = "unresolved"
            /\ printed[i][2] = CountTrue(remaining_voids)

\* the integers nearest to n / d, for n >= 0 and d > 0 (both on a tie)
NearestInts(n, d) ==
    IF 2 * (n % d) < d THEN {n \div d}
    ELSE IF 2 * (n % d) > d THEN {(n \div d) + 1}
    ELSE {n \div d, (n \div d) + 1}

\* C9: the normalized value of elevation e is
\* round(max(e, 0) * (65535 - 1000) / max_elevation_m + 1000) clipped to
\* [0, 65535].
C9_RoundedLinearMap ==
    pc = "save"
    => \E v \in NearestInts(Max(merged[<<0, 0>>], 0) * (65535 - 1000), max_elevation_m) :
         normalized[<<0, 0>>] = Min(v + 1000, 65535)

\* C10: a normalized pixel lies in [1000, 65535], is exactly 1000 for every
\* elevation <= 0 (the sentinel included), and does not decrease when the
\* elevation grows by one.
C10_RangeAndMonotone ==
    pc = "save"
    => \A p \in DOMAIN normalized :
         /\ 1000 <= normalized[p] /\ normalized[p] <= 65535
         /\ merged[p] <= 0 => normalized[p] = 1000
         /\ merged[p] < 32767
            => normalized[p] <= NormalizePixel(merged[p] + 1, max_elevation_m)
         /\ merged[p] > -32768
            => NormalizePixel(merged[p] - 1, max_elevation_m) <= normalized[p]

C10_Witness ==
    /\ pc = "save"
    /\ merged[<<0, 0>>] = SRTM_NODATA
    /\ normalized[<<0, 0>>] = SEA_LEVEL_UINT16
    /\ max_elevation_m = 4810

\* ------------------------------------------------------------ LOD pyramid
\* _generate_lods_and_chunk has returned
PyramidDone == pc = "overview"
\* level k+1 has the height and width of level k halved, rounding up
HalvedRoundingUp(small, big) ==
    /\ Height(small) = Ceil(Height(big), 2)
    /\ Width(small) = Ceil(Width(big), 2)
\* the levels listed by chunks_info
LodsChunked == {chunks_info[i].lod : i \in DOMAIN chunks_info}

\* C11 as stated: the pyramid has exactly 5 levels, level 0 is the input
\* unchanged, and every level k+1 is strictly smaller than level k, its
\* height and width being those of level k halved, rounding up.
C11_StrictlySmallerLevels ==
    PyramidDone
    => /\ Len(levels) = 5
       /\ LodsChunked = 0 .. 4
       /\ levels[1] = normalized
       /\ \A k \in 1 .. 4 :
            /\ HalvedRoundingUp(levels[k + 1], levels[k])
            /\ Height(levels[k + 1]) * Width(levels[k + 1])
                 < Height(levels[k]) * Width(levels[k])

\* C11 amended: the pyramid has exactly 5 levels, level 0 is the input
\* unchanged, and every level k+1 has the height and width of level k
\* halved, rounding up: a dimension greater than 1 strictly decreases and a
\* dimension of 1 stays 1.
C11_HalvedLevels ==
    PyramidDone
    => /\ Len(levels) = 5
       /\ LodsChunked = 0 .. 4
       /\ levels[1] = normalized
       /\ \A k \in 1 .. 4 :
            /\ HalvedRoundingUp(levels[k + 1], levels[k])
            /\ Height(levels[k]) > 1 => Height(levels[k + 1]) < Height(levels[k])
            /\ Height(levels[k]) = 1 => Height(levels[k + 1]) = 1
            /\ Width(levels[k]) > 1 => Width(levels[k + 1]) < Width(levels[k])
            /\ Width(levels[k]) = 1 => Width(levels[k + 1]) = 1

C11_Witness ==
    /\ PyramidDone
    /\ Len(levels) = 5
    /\ Height(levels[1]) = 3 /\ Width(levels[1]) = 4
    /\ Height(levels[2]) = 2 /\ Width(levels[2]) = 2
    /\ Height(levels[3]) = 1 /\ Width(levels[3]) = 1
    /\ Height(levels[5]) = 1 /\ Width(levels[5]) = 1

\* the sum of the pixels of a buffer
PixelSum(d) == SumOver(d, DOMAIN d)
\* |mean(a) - mean(b)| < 1, on exact integers
MeansWithinOne(a, b) ==
    LET na == Cardinality(DOMAIN a)
        nb == Cardinality(DOMAIN b)
        diff == PixelSum(a) * nb - PixelSum(b) * na
    IN  -(na * nb) < diff /\ diff < na * nb

\* C12: for every level buffer, of odd or even height and width, the mean
\* of _downsample(buffer) differs from the mean of the buffer by less than
\* 1 normalized unit.
C12_MeanPreserved ==
    \A k \in 1 .. Len(levels) - 1 : MeansWithinOne(levels[k + 1], levels[k])

\* ----------------------------------------------------------------- chunks
\* C13: every chunk file of a level is CHUNK_SIZE_PX square, its pixel
\* (i, j) (row i, column j) of chunk (x, y) is level[size*y + i, size*x + j]
\* inside the buffer and 0 outside, and reading every level pixel back from
\* the chunk at its grid position reconstructs the level buffer.
C13_ChunkRoundTrip ==
    /\ \A path \in DOMAIN chunk_files :
         LET level == levels[path[2] + 1]
             chunk == chunk_files[path]
         IN  /\ DOMAIN chunk = Grid(CHUNK_SIZE_PX, CHUNK_SIZE_PX)
             /\ \A q \in DOMAIN chunk :
                  LET at == <<CHUNK_SIZE_PX * path[5] + q[1],
                              CHUNK_SIZE_PX * path[4] + q[2]>>
                  IN  chunk[q] = IF at \in DOMAIN level THEN level[at] ELSE 0
    /\ \A k \in 1 .. Len(levels) :
         \A p \in DOMAIN levels[k] :
           LET path == ChunkPath(k - 1, p[2] \div CHUNK_SIZE_PX, p[1] \div CHUNK_SIZE_PX)
           IN  /\ path \in DOMAIN chunk_files
               /\ chunk_files[path][<<p[1] % CHUNK_SIZE_PX, p[2] % CHUNK_SIZE_PX>>]
                    = levels[k][p]

C13_Witness ==
    /\ PyramidDone
    /\ Height(levels[1]) = 2 * CHUNK_SIZE_PX - 1
    /\ Width(levels[1]) = 2 * CHUNK_SIZE_PX - 1
    /\ ChunkPath(0, 1, 1) \in DOMAIN chunk_files
    /\ chunk_files[ChunkPath(0, 1, 1)][<<0, 0>>] > SEA_LEVEL_UINT16
    /\ chunk_files[ChunkPath(0, 1, 1)][<<CHUNK_SIZE_PX - 1, CHUNK_SIZE_PX - 1>>] = 0

\* the chunk grid of a level, from its size
GridOf(level) ==
    (0 .. Ceil(Width(level), CHUNK_SIZE_PX) - 1)
        \X (0 .. Ceil(Height(level), CHUNK_SIZE_PX) - 1)

\* C14: the chunk records of level lod are exactly the grid
\* {(lod, x, y) : 0 <= x < ceil(w / size), 0 <= y < ceil(h / size)}, every
\* coordinate and every path once, each naming the file written for it;
\* the total count is the sum of the levels' grid sizes.
C14_ChunkGridRecords ==
    PyramidDone
    => /\ \A l \in 0 .. LOD_LEVELS - 1 :
            {<<chunks_info[i].x, chunks_info[i].y>> :
                i \in {j \in DOMAIN chunks_info : chunks_info[j].lod = l}}
              = GridOf(levels[l + 1])
       /\ \A i, j \in DOMAIN chunks_info :
            i # j => /\ chunks_info[i].path # chunks_info[j].path
                     /\ <<chunks_info[i].lod, chunks_info[i].x, chunks_info[i].y>>
                          # <<chunks_info[j].lod, chunks_info[j].x, chunks_info[j].y>>
       /\ \A i \in DOMAIN chunks_info :
            /\ chunks_info[i].path
                 = ChunkPath(chunks_info[i].lod, chunks_info[i].x, chunks_info[i].y)
            /\ chunks_info[i].path \in DOMAIN chunk_files
       /\ Len(chunks_info)
            = SumOver([k \in 1 .. LOD_LEVELS |-> Cardinality(GridOf(levels[k]))],
                      1 .. LOD_LEVELS)

C14_Witness ==
    /\ PyramidDone
    /\ Height(levels[1]) = 2 * CHUNK_SIZE_PX - 1
    /\ Width(levels[1]) = 2 * CHUNK_SIZE_PX
    /\ Len(chunks_info) = 4 + Cardinality(GridOf(levels[2])) + 3
    /\ chunks_info[2] = [lod |-> 0, x |-> 1, y |-> 0, path |-> ChunkPath(0, 1, 0)]

\* ------------------------------------------------------ parent and child
\* the sum of the 2x2 block of a level that contains pixel <<row, column>>,
\* the last row / column counted again where the block sticks out
BlockSum(level, row, col) ==
    LET r0 == 2 * (row \div 2)
        c0 == 2 * (col \div 2)
        at(r, c) == level[<<Min(r, Height(level) - 1), Min(c, Width(level) - 1)>>]
    IN  at(r0, c0) + at(r0, c0 + 1) + at(r0 + 1, c0) + at(r0 + 1, c0 + 1)

\* v is the average of the block within the tolerance of rounding
WithinRounding(v, sum4) == -4 < sum4 - 4 * v /\ sum4 - 4 * v < 4

\* the footprint of chunk column / row x of a level lies in the footprint of
\* chunk x div 2 of the next level (in pixels of the finer level)
FootprintInParent(x) ==
    /\ 2 * CHUNK_SIZE_PX * (x \div 2) <= CHUNK_SIZE_PX * x
    /\ CHUNK_SIZE_PX * (x + 1) <= 2 * CHUNK_SIZE_PX * ((x \div 2) + 1)

\* chunk files of levels that have a parent level
ChildPaths == {path \in DOMAIN chunk_files : path[2] < LOD_LEVELS - 1}
\* the pixels <<row, column>> of a chunk that lie inside its level
InBuffer(path) ==
    {q \in Grid(CHUNK_SIZE_PX, CHUNK_SIZE_PX) :
        <<CHUNK_SIZE_PX * path[5] + q[1], CHUNK_SIZE_PX * path[4] + q[2]>>
            \in DOMAIN levels[path[2] + 1]}

\* C15 as stated: for every chunk (lod, x, y), lod < 4, the chunk
\* (lod+1, x div 2, y div 2) exists and covers its footprint, and pixel
\* (px div 2, py div 2) of that chunk is the box average of the 2x2 block
\* containing pixel (px, py) of chunk (lod, x, y), within rounding.
C15_ParentPixelHalved ==
    PyramidDone
    => \A path \in ChildPaths :
         LET parent == ChunkPath(path[2] + 1, path[4] \div 2, path[5] \div 2)
         IN  /\ parent \in DOMAIN chunk_files
             /\ FootprintInParent(path[4]) /\ FootprintInParent(path[5])
             /\ \A q \in InBuffer(path) :
                  WithinRounding(chunk_files[parent][<<q[1] \div 2, q[2] \div 2>>],
                                 BlockSum(levels[path[2] + 1],
                                          CHUNK_SIZE_PX * path[5] + q[1],
                                          CHUNK_SIZE_PX * path[4] + q[2]))

\* C15 amended: the parent chunk exists and covers the footprint, and the
\* parent pixel of (px, py) is ((x mod 2) * size/2 + px div 2,
\* (y mod 2) * size/2 + py div 2): the half of the parent chunk that the
\* child occupies is selected by the parity of its grid coordinate.
C15_ParentPixelInQuadrant ==
    PyramidDone
    => \A path \in ChildPaths :
         LET parent == ChunkPath(path[2] + 1, path[4] \div 2, path[5] \div 2)
         IN  /\ parent \in DOMAIN chunk_files
             /\ FootprintInParent(path[4]) /\ FootprintInParent(path[5])
             /\ \A q \in InBuffer(path) :
                  WithinRounding(
                    chunk_files[parent][<<(path[5] % 2) * ChunkHalf + (q[1] \div 2),
                                          (path[4] % 2) * ChunkHalf + (q[2] \div 2)>>],
                    BlockSum(levels[path[2] + 1],
                             CHUNK_SIZE_PX * path[5] + q[1],
                             CHUNK_SIZE_PX * path[4] + q[2]))

C15_Witness ==
    /\ PyramidDone
    /\ ChunkPath(0, 1, 1) \in ChildPaths
    /\ InBuffer(ChunkPath(0, 1, 1)) = Grid(CHUNK_SIZE_PX, CHUNK_SIZE_PX)
    /\ chunk_files[ChunkPath(1, 0, 0)][<<ChunkHalf, ChunkHalf>>]
         # chunk_files[ChunkPath(1, 0, 0)][<<0, 0>>]

\* ------------------------------------------------------ output directory
\* C16: after a sequence of complete runs into the same directory, the
\* metadata of the last run agrees with the disk: total_chunks is the
\* length of the chunks list, and the paths it lists are exactly the chunk
\* files present under chunks/lod*/.
C16_MetadataMatchesDisk ==
    pc = "done"
    => /\ metadata_file.exists
       /\ metadata_file.total_chunks = Len(metadata_file.chunks)
       /\ {metadata_file.chunks[i].path : i \in DOMAIN metadata_file.chunks}
            = DOMAIN chunk_files

\* the run ended after its first output write (the master heightmap) and
\* before its completion
EndedPartWay ==
    /\ pc \in {"interrupted", "failed"}
    /\ failure.at \in {"lods", "lod_loop", "overview", "metadata", "cells"}

\* C17: when a run is interrupted or fails between its first output write
\* and its completion, TerrainValidator.validate() on the output directory
\* does not report the output as valid.
C17_PartialOutputInvalid == EndedPartWay => ~Validate

\* the master pixel an overview pixel is sampled from
OverviewSource(p) == normalized[<<IndexY(normalized, p[1]), IndexX(normalized, p[2])>>]
\* its elevation is at least 5 m:
\* (v - 1000) / 64535 * max_elevation_m >= 5
AtLeastFiveMetres(v) == (v - 1000) * max_elevation_m >= 5 * 64535
\* the palette of the directory cannot be used
PaletteUnavailable == palette \in {"missing", "unreadable", "bad_shape"}
\* _generate_overview_texture has returned in this run
OverviewDone ==
    \/ pc \in {"metadata", "cells", "done"}
    \/ pc = "interrupted" /\ failure.at \in {"metadata", "cells"}

C18_FetchFailureFatal ==
    \A i \in DOMAIN tile_log :
      tile_log[i].error \in {"HTTP Error", "Error: URLError", "Error: BadGzipFile"}
      => pc = "failed"

\* C19: a tile of the wrong size, read from the cache or just downloaded,
\* makes the run fail at once with an error that names the stage and the
\* cell; it is not placed and not taken for an absent tile.
C19_MalformedTileFatal ==
    /\ \A i \in DOMAIN tile_log :
         tile_log[i].error = "Error: ValueError" => pc = "failed"
    /\ (pc = "failed" /\ failure.exc = "ValueError")
       => /\ failure.at \in {"start", "download", "srtm3_get"}
          /\ failure.tile = ScanCell(current)

\* ------------------------------------------- the fill pass, per iteration
\* the fill loop has run at least one iteration of the current call
FillStarted == pc \in {"fill_loop", "fill_smooth"} /\ iteration >= 1
\* pixels the current call found void and has filled so far
FilledSoFar == {p \in DOMAIN void_mask : void_mask[p] /\ ~remaining_voids[p]}
\* the real elevations of the buffer handed to the current call
ValidInput == {merged[p] : p \in {q \in DOMAIN merged : merged[q] # SRTM_NODATA}}

\* C21: in the fill pass, a filled pixel never holds the sentinel and lies
\* between the minimum and the maximum of the valid input pixels (the
\* sentinel of a pixel filled earlier in the same iteration never enters an
\* average).
C21_FilledWithinValidRange ==
    FillStarted
    => \A p \in FilledSoFar :
         /\ filled[p] # SRTM_NODATA
         /\ \E lo \in ValidInput : lo <= filled[p]
         /\ \E hi \in ValidInput : filled[p] <= hi

\* C22: the fill loop ends after at most 100 iterations for every input:
\* every step taken inside the loop is an iteration that advances the
\* counter by one, the counter never passes 100, and the only step left at
\* 100 leaves the loop; an iteration never increases the number of pixels
\* marked void; and the loop is left before the 100th iteration only when
\* no pixel is marked void.
C22_FillLoopTerminates ==
    [][pc = "fill_loop"
       => /\ iteration <= 100
          /\ pc' = "fill_loop"
             => /\ iteration' = iteration + 1
                /\ iteration' <= 100
                /\ CountTrue(remaining_voids') <= CountTrue(remaining_voids)
          /\ pc' # "fill_loop"
             => /\ pc' = "fill_smooth"
                /\ iteration < 100 => CountTrue(remaining_voids) = 0]_vars

\* the cap is reached with pixels still marked void (an all-void buffer)
C22_Witness ==
    /\ pc = "fill_smooth"
    /\ iteration = 100
    /\ CountTrue(remaining_voids) = BufSide * BufSide

\* the kernel applied at p to the values of buffer d, none of them smoothed
KernelOnInput(d, p) == FloatToInt16(SmoothValue([q \in DOMAIN d |-> ToFloat(d[q])], p))

\* C23: after smoothing, every originally-void pixel holds the 3x3 kernel
\* (normalized over the in-bounds neighbours) applied to the values the
\* filled buffer had before smoothing started, whatever the order in which
\* the pixels were smoothed.
C23_SmoothingReadsFilledBuffer ==
    (AfterFillVoids /\ LastCallFilled)
    => \A p \in DOMAIN void_mask :
         void_mask[p] => merged[p] = KernelOnInput(filled, p)

\* --------------------------------------------- rounding of the box filter
\* v is a nearest integer to sum4 / 4 (either neighbour at a tie)
NearestToQuarter(v, sum4) == -2 <= sum4 - 4 * v /\ sum4 - 4 * v <= 2

\* C24: every pixel of a downsampled level is the average of its 2x2 block
\* of the level before (the last row / column repeated once at an odd edge,
\* not zero-filled) rounded to the nearest unsigned 16-bit integer, and the
\* level has the size of the level before halved, rounding up.
C24_BlockAverageRoundedToNearest ==
    \A k \in 1 .. Len(levels) - 1 :
      /\ HalvedRoundingUp(levels[k + 1], levels[k])
      /\ \A p \in DOMAIN levels[k + 1] :
           /\ levels[k + 1][p] \in 0 .. 65535
           /\ NearestToQuarter(levels[k + 1][p], BlockSum(levels[k], 2 * p[1], 2 * p[2]))

\* ------------------------------------------------- clipping of tile writes
\* the tile about to be placed, as <<lat, lon, tile>>
Placing ==
    IF pc = "srtm3_place"
    THEN <<ScanCell(current)[1], ScanCell(current)[2], loading>>
    ELSE tiles[current + 1]
\* tile sample (r, c) exists
InTile(r, c) ==
    /\ 0 <= r /\ r < TileOut(downsample_3x)
    /\ 0 <= c /\ c < TileOut(downsample_3x)
\* no sample of the tile of cell (lat, lon) lands inside the buffer
WhollyOutside(lat, lon) ==
    \A p \in Grid(height_px(downsample_3x), width_px(downsample_3x)) :
      ~InTile(p[1] - YOffset(lat, downsample_3x), p[2] - XOffset(lon, downsample_3x))
\* some samples of the tile land inside the buffer and some rows or columns
\* of it lie before the buffer's first row or column
SticksOutNorthWest(lat, lon) ==
    /\ ~WhollyOutside(lat, lon)
    /\ YOffset(lat, downsample_3x) < 0 \/ XOffset(lon, downsample_3x) < 0

\* C25: for any box, also with fractional bounds, a tile placement leaves
\* the buffer its size, gives pixel (y_offset + r, x_offset + c) tile sample
\* (r, c) for exactly the (r, c) of the tile that land inside the buffer,
\* and changes no other pixel; a tile wholly outside changes nothing.
C25_WritesClippedToBuffer ==
    [][(pc = "srtm3_place" \/ pc = "merge")
       => /\ DOMAIN merged' = Grid(height_px(downsample_3x), width_px(downsample_3x))
          /\ \A p \in DOMAIN merged' :
               LET r == p[1] - YOffset(Placing[1], downsample_3x)
                   c == p[2] - XOffset(Placing[2], downsample_3x)
               IN  merged'[p] = (IF InTile(r, c)
                                 THEN TilePlace(Placing[3], downsample_3x, r, c)
                                 ELSE merged[p])
          /\ (WhollyOutside(Placing[1], Placing[2]) => merged' = merged)]_vars

\* _merge_tiles has placed a tile that lies wholly outside and one that
\* sticks out of the box to the north or west
C25_Witness ==
    /\ pc = "fill"
    /\ Len(tiles) = 2
    /\ WhollyOutside(tiles[1][1], tiles[1][2])
    /\ SticksOutNorthWest(tiles[2][1], tiles[2][2])
    /\ ~IsNone(tiles[2][3])

\* --------------------------------- metre conversion against the Normalizer
\* the overview of this run is written and the mosaic it came from is known
ConvDone == pc = "metadata" /\ DOMAIN merged = DOMAIN normalized
\* the mosaic pixel an overview pixel is sampled from
ConvSource(p) == <<IndexY(normalized, p[1]), IndexX(normalized, p[2])>>

\* C26: for every elevation e in [0, max_elevation_m], the overview's metre
\* value of normalize(e) differs from e by less than one quantization step
\* max_elevation_m / 64535; code 1000 (and so elevation 0) converts to
\* exactly 0 m; and an overview pixel sampled from such an elevation is
\* water when e < 5 and only when e < 5 + one quantization step.
C26_MetresInverseOfNormalize ==
    ConvDone
    => /\ ElevMScaled(SEA_LEVEL_UINT16) = 0
       /\ \A q \in DOMAIN merged :
            (0 <= merged[q] /\ merged[q] <= max_elevation_m)
            => /\ 64535 * merged[q] - ElevMScaled(normalized[q]) < max_elevation_m
               /\ ElevMScaled(normalized[q]) - 64535 * merged[q] < max_elevation_m
               /\ merged[q] = 0 => ElevMScaled(normalized[q]) = 0
       /\ \A p \in DOMAIN overview_file :
            LET e == merged[ConvSource(p)]
            IN  (0 <= e /\ e <= max_elevation_m)
                => /\ e < 5 => overview_file[p] = COLOR_WATER_OVERVIEW
                   /\ overview_file[p] = COLOR_WATER_OVERVIEW
                      => 64535 * (e - 5) < max_elevation_m

\* elevation 5 m, normalized to 1067 for max_elevation_m = 4810, converts
\* back to 4.99 m and is coloured water; elevation 6 m is land
C26_Witness ==
    /\ ConvDone
    /\ max_elevation_m = 4810
    /\ merged[<<0, 0>>] = 5
    /\ normalized[<<0, 0>>] = 1067
    /\ overview_file[<<0, 0>>] = COLOR_WATER_OVERVIEW
    /\ overview_file[<<0, OverviewWidth - 1>>] = FallbackGreen

\* ------------------------------------------- test tiles into the reader
\* C27: every file written by generate_test_data is accepted by _read_hgt
\* and read back as the raster that was saved, with the same dimensions and
\* samples, so process_terrain does not fail on a cache filled by it.
C27_TestTilesRoundTrip ==
    /\ \A cell \in Cells :
         cache[cell] = "test"
         => /\ ~ReadHgtRaises(cache[cell])
            /\ SRTM_TILE_SIZE = GeneratedTileSize
            /\ \A p \in Grid(GeneratedTileSize, GeneratedTileSize) :
                 TileArray([kind |-> "test", lat |-> cell[1], lon |-> cell[2]], p[1], p[2])
                   = GenerateSyntheticTile(cell[1], cell[2])[p]
    /\ failure = NoFailure

\* ------------------------------------------- the cache after a failure
\* C28: a download that ended in an error has left no file in the cache for
\* its cell, and every file a download of this run has left is a complete
\* tile (one that _read_hgt accepts), so that a later _get_tile of the cell
\* returns the whole tile or downloads again.
C28_FailedDownloadLeavesNoFile ==
    \A i \in DOMAIN tile_log :
      tile_log[i].downloading
      => /\ tile_log[i].error # "" => cache[tile_log[i].cell] = "missing"
         /\ cache[tile_log[i].cell] # "missing"
            => ~ReadHgtRaises(cache[tile_log[i].cell])

\* ------------------------------------ equivalence of the decimated mosaics
\* both calls have ended
BothEnded == reference.done /\ pc \in {"fill", "failed"}
\* the cells of the box in scan order
ScanOrder == [i \in 1 .. total_tiles |-> ScanCell(i - 1)]

OtherFields(metadata) == [f \in DOMAIN metadata \ {"overview"} |-> metadata[f]]

\* C30: a call of run_overview_only leaves the master heightmap, every chunk
\* file and the palette as they were; when it returns it has written the
\* overview texture of the master on disk; an existing metadata file keeps
\* every entry but the overview's, which are those of the new overview; an
\* absent metadata file stays absent; when it exits or raises, no file has
\* changed.
C30_OverviewOnlyChangesOnlyOverview ==
    [][(Ended /\ failure'.at = "overview_only")
       => /\ master_file' = master_file
          /\ chunk_files' = chunk_files
          /\ palette' = palette
          /\ OtherFields(metadata_file') = OtherFields(metadata_file)
          /\ ~metadata_file.exists => metadata_file' = metadata_file
          /\ pc' = "done"
             => /\ overview_file' = OverviewTexture(master_file, palette)
                /\ metadata_file.exists
                   => metadata_file'.overview = OverviewInfo(master_file)
          /\ pc' = "failed"
             => overview_file' = overview_file /\ metadata_file' = metadata_file]_vars

\* run_overview_only has returned on a directory whose metadata and chunks
\* are those of an earlier master than the one on disk
C30_Witness ==
    /\ pc = "done"
    /\ failure.at = "overview_only"
    /\ metadata_file.exists
    /\ metadata_file.master_heightmap_width # Width(master_file)
    /\ metadata_file.overview = OverviewInfo(master_file)
    /\ DOMAIN chunk_files # {}

====
